---- MODULE Spec2Model ----
(***************************************************************************)
(* Model of the notification dispatcher of html-to-pdf:                    *)
(*   handlers/notification_handler.rs  (POST /api/notifications/send)      *)
(*   services/notification_service.rs  (process_notification, senders)     *)
(*   services/operation_service.rs     (operations table)                  *)
(*   services/notification_channel_service.rs (operation_channels table)   *)
(*   handlers/operation_handler.rs     (/api/operations)                   *)
(*   services/email_service.rs         (send_email, emails table)          *)
(* Every store access, render and sender call is an await point, so each   *)
(* is one atomic step of the operation's task.                             *)
(***************************************************************************)
EXTENDS Integers, Sequences, FiniteSets, TLC

\* ---------------------------------------------------------------- bounds
MaxChannels == 2
MaxStoreFaults == 1
MaxRows == 2
MaxAttempts == 2
MaxTime == 3
TicksPerSecond == 2
MaxPage == 2
MaxPageSize == 2
MaxCalls == 3            \* generate_pdf calls started in one run
MaxRecipients == 2       \* recipients of one WhatsApp send
MaxAttachments == 2      \* attachments handed to one WhatsApp send
WordBits == 4            \* the width of u64 and i64 (64 in the build) in list_operations

\* the request in flight; operation 0 is one that finished before it arrived
Ops == {1}
Earlier == 0

\* the handlers that can be in flight at once: the request of Ops, and in
\* SpecConcurrent a second request that arrives while the first is handled
Dispatchers == {1, 2}
Tags == {"email", "whatsapp", "sms"}
Statuses == {"pending", "running", "done", "failed"}

\* SQL NULL in an error_message column; a text is a sequence of fragments
NULL == <<>>
OK == <<"Ok">>

Range(s) == {s[k] : k \in 1..Len(s)}

\* ------------------------------------------------------- anyhow errors
\* An anyhow::Error is its context chain, outermost message first.
Anyhow(msg) == <<msg>>
Context(ctx, e) == <<ctx>> \o e

\* format!("{}", e): anyhow's Display prints the outermost message only.
Display(e) == <<e[1]>>

\* format!("{:?}", e): anyhow's Debug prints the message and the chain of causes.
Debug(e) == IF Len(e) = 1 THEN e ELSE <<e[1], "Caused by:">> \o Tail(e)

StoreError == Anyhow("sqlx error")

\* ------------------------------------------------------------ requests
SeqsUpTo(S, n) == UNION {[1..k -> S] : k \in 0..n}

\* NotificationRequest: the fields the dispatcher branches on.  A config is
\* enumerated only when its channel is listed (it is read by no other code).
Requests ==
    {r \in [channels : SeqsUpTo(Tags, MaxChannels), async_send : BOOLEAN,
            pdf_html : BOOLEAN, email_config : BOOLEAN, whatsapp_config : BOOLEAN] :
        /\ r.email_config => "email" \in Range(r.channels)
        /\ r.whatsapp_config => "whatsapp" \in Range(r.channels)}

NoRequest == [channels |-> <<>>, async_send |-> FALSE, pdf_html |-> FALSE,
              email_config |-> FALSE, whatsapp_config |-> FALSE]

VARIABLES
    operations,          \* table operations: id -> row
    operation_channels,  \* table operation_channels: sequence of rows, id = position
    req,                 \* req[o]: the request body of operation o
    pc,                  \* pc[o]: position of the handler / task of operation o
    channel_ids,         \* channel_ids[o]: local of process_notification
    idx,                 \* idx[o]: position of the loops of process_notification
    result,              \* result[o]: the sender's / process_notification's Result
    response,            \* response[o]: HTTP status answered, 0 while none
    faults,              \* store accesses that have failed so far
    dropped,             \* history: the error of mark_operation_failed was dropped for o
    senderLog,           \* history: one entry per channel whose send step ran, in order
    now,                 \* the wall clock, in ticks
    emails,              \* table emails: sequence of rows
    email_task,          \* EmailService::send_email in flight: position, operation, Result
    reply                \* the answer of the last read endpoint of /api/operations

\* PdfService: the shared browser, the directory ./tmp and the calls in flight
VARIABLES
    tabs,                \* the tabs open in the browser
    tmp_files,           \* the files in ./tmp
    calls,               \* generate_pdf calls started so far
    unclosed,            \* history: the tabs whose page.close() returned Err
    pdf_pc,              \* pdf_pc[c]: position of caller c in generate_pdf
    pdf_req,             \* pdf_req[c]: the PdfRequest of caller c
    tab,                 \* tab[c]: the page (tab) of the call, 0 while none
    file_path,           \* file_path[c]: local of _generate_pdf_internal, 0 = PathBuf::new()
    print_pdf,           \* print_pdf[c]: the PrintToPdfParams handed to page.pdf, if any
    pdf_result           \* pdf_result[c]: the Result of the call

pdf == <<tabs, tmp_files, calls, unclosed, pdf_pc, pdf_req, tab, file_path, print_pdf,
         pdf_result>>

\* one send_via_whatsapp followed request by request
VARIABLES
    whatsapp,            \* position, arguments, loop indices and Result of the send
    gateway              \* history: the requests issued to the gateway, in order

wa == <<whatsapp, gateway>>

\* one EmailService::send_unified followed message by message
VARIABLES
    mail,                \* position, recipients, loop index and Result of the send
    outbox               \* history: the messages handed to the SMTP relay, in order

smtp == <<mail, outbox>>

\* the attachments of one process_notification
VARIABLES
    notif,               \* position, request, final_attachments, loop index, renders so far
    handed               \* history: per sender invoked, the attachments it was handed

attach == <<notif, handed>>

vars == <<operations, operation_channels, req, pc, channel_ids, idx, result,
          response, faults, dropped, senderLog, now, emails, email_task, reply, pdf, wa, smtp,
          attach>>

\* what the notification endpoint and its dispatcher never write
side == <<now, emails, email_task, reply, pdf, wa, smtp, attach>>

\* ---------------------------------------------------------- timestamps
\* An instant is a number of clock ticks; a timestamp column holds a text.
Times == 0..MaxTime

\* Utc::now().to_rfc3339(): date, 'T', time with its fraction, offset +00:00
ToRfc3339(t) == [format |-> "rfc3339", instant |-> t]

\* SQLite's CURRENT_TIMESTAMP: 'YYYY-MM-DD HH:MM:SS' in UTC, whole seconds, no offset
CurrentTimestamp(t) == [format |-> "sqlite", instant |-> t - (t % TicksPerSecond)]

\* str::parse::<DateTime<Utc>>(): the text must carry an offset
ParseDateTime(text) ==
    IF text.format = "rfc3339" THEN <<"Ok", text.instant>> ELSE <<"Err", "ParseError(TooShort)">>

\* ------------------------------------------------- store: operations
\* mutant: the INSERT stamps updated_at only
CreateOperation_NoCreatedAt(tbl, id, r, t) ==
    tbl @@ (id :> [operation_type |-> r.operation_type, status |-> "pending",
                   error_message |-> NULL, is_async |-> r.is_async,
                   created_at |-> ToRfc3339(0), updated_at |-> ToRfc3339(t),
                   metadata |-> r.metadata])

\* OperationService::create_operation: INSERT INTO operations
\* VALUES (id, operation_type, 'pending', NULL, is_async, now, now, metadata)
CreateOperation(tbl, id, r, t) ==
    tbl @@ (id :> [operation_type |-> r.operation_type, status |-> "pending",
                   error_message |-> NULL, is_async |-> r.is_async,
                   created_at |-> ToRfc3339(t), updated_at |-> ToRfc3339(t),
                   metadata |-> r.metadata])

\* OperationService::update_operation: UPDATE operations SET status, error_message,
\* updated_at = now WHERE id
UpdateOperation(tbl, id, new_status, error_message, t) ==
    [o \in DOMAIN tbl |->
        IF o = id THEN [tbl[o] EXCEPT !.status = new_status, !.error_message = error_message,
                                      !.updated_at = ToRfc3339(t)]
        ELSE tbl[o]]

\* OperationService::update_operation_status: UPDATE operations SET status, error_message
\* WHERE id; updated_at is not written
UpdateOperationStatus(tbl, id, status, error) ==
    [o \in DOMAIN tbl |->
        IF o = id THEN [tbl[o] EXCEPT !.status = status, !.error_message = error]
        ELSE tbl[o]]

\* mutant: the error text is not bound, error_message is left NULL
MarkOperationFailed_NoError(tbl, id, error, t) ==
    [o \in DOMAIN tbl |->
        IF o = id THEN [tbl[o] EXCEPT !.status = "failed", !.error_message = NULL,
                                      !.updated_at = CurrentTimestamp(t)]
        ELSE tbl[o]]

\* OperationService::mark_operation_failed: UPDATE operations SET status = 'failed',
\* error_message = ?, updated_at = CURRENT_TIMESTAMP WHERE id = ?
MarkOperationFailed(tbl, id, error, t) ==
    [o \in DOMAIN tbl |->
        IF o = id THEN [tbl[o] EXCEPT !.status = "failed", !.error_message = error,
                                      !.updated_at = CurrentTimestamp(t)]
        ELSE tbl[o]]

\* ------------------------------------------- store: operation_channels
\* NotificationChannelService::create_channel: INSERT ... (status, NULL, .., attempts 0)
CreateChannel(tbl, operation_id, channel, initial_status) ==
    Append(tbl, [operation_id |-> operation_id, channel |-> channel,
                 status |-> initial_status, error_message |-> NULL, attempts |-> 0])

\* mutant: the UPDATE without its WHERE id clause
UpdateChannelStatus_NoWhere(tbl, channel_id, status, error_message, increment_attempt) ==
    [c \in DOMAIN tbl |->
        [tbl[c] EXCEPT !.status = status,
                       !.error_message = error_message,
                       !.attempts = IF increment_attempt THEN @ + 1 ELSE @]]

\* mutant: increment_attempt ignored, attempts never bumped
UpdateChannelStatus_NoIncrement(tbl, channel_id, status, error_message, increment_attempt) ==
    [c \in DOMAIN tbl |->
        IF c = channel_id
        THEN [tbl[c] EXCEPT !.status = status, !.error_message = error_message]
        ELSE tbl[c]]

\* mutant: attempts bumped on every update
UpdateChannelStatus_AlwaysIncrement(tbl, channel_id, status, error_message, increment_attempt) ==
    [c \in DOMAIN tbl |->
        IF c = channel_id
        THEN [tbl[c] EXCEPT !.status = status,
                            !.error_message = error_message,
                            !.attempts = @ + 1]
        ELSE tbl[c]]

\* NotificationChannelService::update_channel_status: one UPDATE statement that
\* sets status, error_message and, when asked, attempts = attempts + 1.
UpdateChannelStatus(tbl, channel_id, status, error_message, increment_attempt) ==
    [c \in DOMAIN tbl |->
        IF c = channel_id
        THEN [tbl[c] EXCEPT !.status = status,
                            !.error_message = error_message,
                            !.attempts = IF increment_attempt THEN @ + 1 ELSE @]
        ELSE tbl[c]]

\* mutant: the SELECT without its WHERE operation_id clause
ListChannelsForOperation_NoFilter(tbl, operation_id) == tbl

\* NotificationChannelService::list_channels_for_operation: WHERE operation_id = ?1
ListChannelsForOperation(tbl, operation_id) ==
    SelectSeq(tbl, LAMBDA r : r.operation_id = operation_id)

\* mutant: any() where the code has all()
AllDone_Any(rows) == \E k \in 1..Len(rows) : rows[k].status = "done"

\* mutant: the all_done test dropped, done is always written
AllDone_Unchecked(rows) == TRUE

AllDone(rows) == \A k \in 1..Len(rows) : rows[k].status = "done"

\* ------------------------------------------------------------- senders
\* What the SMTP side answers to EmailService::send_unified.
EmailOutcomes == {"sent", "smtp_error"}

\* EmailService::send_unified(op_id, req, attachments): Ok, or the transport's error.
SendUnified(outcome) ==
    IF outcome = "sent" THEN OK ELSE Anyhow("SmtpTransport")

\* mutant: email_config is not required
SendViaEmail_NoConfigCheck(r, outcome) ==
    IF SendUnified(outcome) = OK THEN OK
    ELSE Context("(send_via_email) Fallo en email_service", SendUnified(outcome))

\* NotificationService::send_via_email
SendViaEmail(r, outcome) ==
    IF ~r.email_config THEN Anyhow("Falta email_config para canal email")
    ELSE IF SendUnified(outcome) = OK THEN OK
    ELSE Context("(send_via_email) Fallo en email_service", SendUnified(outcome))

\* What the environment and the gateway answer to one WhatsApp send.
GatewayOutcomes == {"sent", "env_missing", "status_non_2xx", "not_connected", "post_non_2xx"}

\* NotificationService::send_via_whatsapp: the checks in the order of the code.
SendViaWhatsapp(r, outcome) ==
    IF outcome = "env_missing" THEN Anyhow("No se definio WHATSAPP_API_URL")
    ELSE IF ~r.whatsapp_config THEN Anyhow("No se proporciono whatsapp_config")
    ELSE IF outcome = "status_non_2xx" THEN Anyhow("Error consultando sesion")
    ELSE IF outcome = "not_connected" THEN Anyhow("Sesion WhatsApp no esta CONNECTED")
    ELSE IF outcome = "post_non_2xx" THEN Anyhow("Fallo al enviar texto WhatsApp")
    ELSE OK

\* process_notification, match channel_name: the sender's Result for one channel
SenderOutcomes(tag) ==
    IF tag = "email" THEN EmailOutcomes
    ELSE IF tag = "whatsapp" THEN GatewayOutcomes
    ELSE {"none"}

\* mutant: the other arm answers Ok
ChannelResult_UnknownOk(r, tag, outcome) ==
    IF tag = "email" THEN SendViaEmail(r, outcome)
    ELSE IF tag = "whatsapp" THEN SendViaWhatsapp(r, outcome)
    ELSE OK

ChannelResult(r, tag, outcome) ==
    IF tag = "email" THEN SendViaEmail(r, outcome)
    ELSE IF tag = "whatsapp" THEN SendViaWhatsapp(r, outcome)
    ELSE Anyhow("Canal no soportado: " \o tag)

\* A sender is invoked for email and whatsapp only; the other arm builds the error.
SenderInvoked(tag) == tag \in {"email", "whatsapp"}

\* Whether the sender got as far as its first network call: send_via_email returns
\* before send_unified when email_config is None; send_via_whatsapp returns before
\* the GET of the session status when an env var or whatsapp_config is missing.
NetworkAttempted(r, tag, outcome) ==
    IF tag = "email" THEN r.email_config
    ELSE IF tag = "whatsapp" THEN outcome /= "env_missing" /\ r.whatsapp_config
    ELSE FALSE

\* ------------------------------------------------------------- Init
\* the tasks that call generate_pdf at the same time
PdfCallers == {1, 2}

\* a PdfRequest: size_category, orientation, scale, paper_size, margins; html left out
NoPdfRequest ==
    [size_category |-> NULL, orientation |-> NULL, scale |-> NULL, paper_size |-> NULL,
     margins |-> NULL]

\* no send_via_whatsapp in flight
NoWhatsapp ==
    [pc |-> "idle", env |-> FALSE, whatsapp_config |-> FALSE, recipients |-> 0,
     message |-> FALSE, attachments |-> 0, channel_id |-> 0, i |-> 1, a |-> 1, result |-> OK]

\* no send_unified in flight
NoMail == [pc |-> "idle", recipients |-> 0, attachments |-> 0, i |-> 1, result |-> OK]

\* no process_notification followed for its attachments
NoNotif ==
    [pc |-> "idle", channels |-> <<>>, pdf_html |-> FALSE, pdf_attachment_name |-> NULL,
     other_attachments |-> NULL, final_attachments |-> <<>>, idx |-> 1, renders |-> 0]

NoEmailTask == [pc |-> "idle", id |-> Earlier, result |-> OK]
NoReply == [status |-> 0]

\* The store before the request arrives: an earlier operation that ended failed,
\* with or without a channel row of its own.
EarlierOperation ==
    [operation_type |-> "send_notification", status |-> "failed",
     error_message |-> Anyhow("SmtpTransport"), is_async |-> FALSE,
     created_at |-> ToRfc3339(0), updated_at |-> ToRfc3339(0),
     metadata |-> <<"email">>]
EarlierChannel == [operation_id |-> Earlier, channel |-> "email", status |-> "failed",
                   error_message |-> Anyhow("SmtpTransport"), attempts |-> 1]

Init ==
    /\ operations = (Earlier :> EarlierOperation)
    /\ operation_channels \in {<<>>, <<EarlierChannel>>}
    /\ req = [o \in Dispatchers |-> NoRequest]
    /\ pc = [o \in Dispatchers |-> "idle"]
    /\ channel_ids = [o \in Dispatchers |-> <<>>]
    /\ idx = [o \in Dispatchers |-> 1]
    /\ result = [o \in Dispatchers |-> OK]
    /\ response = [o \in Dispatchers |-> 0]
    /\ faults = 0
    /\ dropped = [o \in Dispatchers |-> FALSE]
    /\ senderLog = [o \in Dispatchers |-> <<>>]
    /\ now = 0
    /\ emails = <<>>
    /\ email_task = NoEmailTask
    /\ reply = NoReply
    /\ tabs = {}
    /\ tmp_files = {}
    /\ calls = 0
    /\ unclosed = {}
    /\ pdf_pc = [c \in PdfCallers |-> "idle"]
    /\ pdf_req = [c \in PdfCallers |-> NoPdfRequest]
    /\ tab = [c \in PdfCallers |-> 0]
    /\ file_path = [c \in PdfCallers |-> 0]
    /\ print_pdf = [c \in PdfCallers |-> NULL]
    /\ pdf_result = [c \in PdfCallers |-> OK]
    /\ whatsapp = NoWhatsapp
    /\ gateway = <<>>
    /\ mail = NoMail
    /\ outbox = <<>>
    /\ notif = NoNotif
    /\ handed = <<>>

\* ------------------------------------------- send_unified_notification_endpoint
\* the CreateOperationRequest the endpoint builds; the metadata is a JSON text
\* that names the channels
NotificationOperation(r) ==
    [operation_type |-> "send_notification", is_async |-> r.async_send,
     metadata |-> r.channels]

\* create_operation succeeded; async: the task is spawned, sync: the handler awaits it
SendUnifiedNotificationEndpoint(o, r) ==
    /\ pc[o] = "idle"
    /\ \A p \in Ops : p < o => pc[p] /= "idle"
    /\ operations' = CreateOperation(operations, o, NotificationOperation(r), now)
    /\ req' = [req EXCEPT ![o] = r]
    /\ pc' = [pc EXCEPT ![o] = "op_running"]
    /\ UNCHANGED <<operation_channels, channel_ids, idx, result, response, faults, dropped, senderLog, side>>

\* async_send: HttpResponse::Ok with the operation_id, while the spawned task runs
RespondAsync(o) ==
    /\ o \in DOMAIN operations
    /\ req[o].async_send
    /\ response[o] = 0
    /\ response' = [response EXCEPT ![o] = 200]
    /\ UNCHANGED <<operations, operation_channels, req, pc, channel_ids, idx, result,
                   faults, dropped, senderLog, side>>

\* ------------------------------------------------------ process_notification
\* mutant: an empty channels list returns Ok before the all_done check
AfterAttachments_EmptyReturns(r) == IF Len(r.channels) = 0 THEN "returned" ELSE "create"

\* where the code goes once the attachments are assembled
AfterAttachments(r) == IF Len(r.channels) = 0 THEN "list" ELSE "create"

\* mutant: the loop is left after the first failed channel
AfterChannel_StopOnFailure(o) ==
    IF pc[o] = "op_failed" \/ idx[o] = Len(channel_ids[o]) THEN "list" ELSE "ch_running"

\* where the code goes after channel idx[o] has been handled
AfterChannel(o) == IF idx[o] = Len(channel_ids[o]) THEN "list" ELSE "ch_running"

\* mutant: the dispatcher starts its work without writing running to the Operation
OperationRunning_NoWrite(o) ==
    /\ pc[o] = "op_running"
    /\ pc' = [pc EXCEPT ![o] = IF req[o].pdf_html THEN "pdf" ELSE AfterAttachments(req[o])]
    /\ UNCHANGED <<operations, operation_channels, req, channel_ids, idx, result, response,
                   faults, dropped, senderLog, side>>

\* 1) operation -> running
OperationRunning(o) ==
    /\ pc[o] = "op_running"
    /\ operations' = UpdateOperationStatus(operations, o, "running", NULL)
    /\ pc' = [pc EXCEPT ![o] = IF req[o].pdf_html THEN "pdf" ELSE AfterAttachments(req[o])]
    /\ UNCHANGED <<operation_channels, req, channel_ids, idx, result, response, faults, dropped, senderLog, side>>

\* PdfService::generate_pdf fails: the renderer's own error
RenderError == Anyhow("renderer error")

\* generate_pdf_for_notification: .context("Error generando PDF con pdf_service")
PdfError == Context("Error generando PDF con pdf_service", RenderError)

\* 2) generate_pdf_for_notification
GeneratePdf(o, rendered) ==
    /\ pc[o] = "pdf"
    /\ IF rendered
       THEN /\ pc' = [pc EXCEPT ![o] = AfterAttachments(req[o])]
            /\ UNCHANGED result
       ELSE /\ pc' = [pc EXCEPT ![o] = "returned"]
            /\ result' = [result EXCEPT ![o] = PdfError]
    /\ UNCHANGED <<operations, operation_channels, req, channel_ids, idx, response,
                   faults, dropped, senderLog, side>>

\* 3) create_channel(op_id, ch, "pending") for each channel
CreateChannelRow(o) ==
    /\ pc[o] = "create"
    /\ operation_channels' = CreateChannel(operation_channels, o, req[o].channels[idx[o]], "pending")
    /\ channel_ids' = [channel_ids EXCEPT ![o] =
           Append(@, <<req[o].channels[idx[o]], Len(operation_channels) + 1>>)]
    /\ IF idx[o] = Len(req[o].channels)
       THEN /\ pc' = [pc EXCEPT ![o] = "ch_running"]
            /\ idx' = [idx EXCEPT ![o] = 1]
       ELSE /\ idx' = [idx EXCEPT ![o] = @ + 1]
            /\ UNCHANGED pc
    /\ UNCHANGED <<operations, req, result, response, faults, dropped, senderLog, side>>

\* mutant: every channel of the operation is started at once
ChannelRunning_AllAtOnce(o) ==
    /\ pc[o] = "ch_running"
    /\ operation_channels' =
           [c \in DOMAIN operation_channels |->
               IF operation_channels[c].operation_id = o /\ operation_channels[c].status = "pending"
               THEN [operation_channels[c] EXCEPT !.status = "running"]
               ELSE operation_channels[c]]
    /\ pc' = [pc EXCEPT ![o] = "send"]
    /\ UNCHANGED <<operations, req, channel_ids, idx, result, response, faults, dropped, senderLog, side>>

\* 4) update_channel_status(channel_id, "running", None, false)
ChannelRunning(o) ==
    /\ pc[o] = "ch_running"
    /\ operation_channels' =
           UpdateChannelStatus(operation_channels, channel_ids[o][idx[o]][2], "running", NULL, FALSE)
    /\ pc' = [pc EXCEPT ![o] = "send"]
    /\ UNCHANGED <<operations, req, channel_ids, idx, result, response, faults, dropped, senderLog, side>>

\* match channel_name.as_str() { "email" => .., "whatsapp" => .., other => Err }
InvokeSender(o, outcome) ==
    /\ pc[o] = "send"
    /\ LET tag == channel_ids[o][idx[o]][1]
           res == ChannelResult(req[o], tag, outcome)
       IN  /\ outcome \in SenderOutcomes(tag)
           /\ result' = [result EXCEPT ![o] = res]
           /\ senderLog' = [senderLog EXCEPT ![o] =
                  Append(@, [pos |-> idx[o], tag |-> tag, invoked |-> SenderInvoked(tag),
                             network |-> NetworkAttempted(req[o], tag, outcome),
                             ok |-> res = OK])]
           /\ pc' = [pc EXCEPT ![o] = IF res = OK THEN "ch_done" ELSE "ch_failed"]
    /\ UNCHANGED <<operations, operation_channels, req, channel_ids, idx, response,
                   faults, dropped, side>>

\* mutant: the loop moves on without writing done to the channel's row
ChannelDone_NoWrite(o) ==
    /\ pc[o] = "ch_done"
    /\ pc' = [pc EXCEPT ![o] = AfterChannel(o)]
    /\ idx' = [idx EXCEPT ![o] = @ + 1]
    /\ UNCHANGED <<operations, operation_channels, req, channel_ids, result, response, faults,
                   dropped, senderLog, side>>

\* Ok(_) => update_channel_status(channel_id, "done", None, false)
ChannelDone(o) ==
    /\ pc[o] = "ch_done"
    /\ operation_channels' =
           UpdateChannelStatus(operation_channels, channel_ids[o][idx[o]][2], "done", NULL, FALSE)
    /\ pc' = [pc EXCEPT ![o] = AfterChannel(o)]
    /\ idx' = [idx EXCEPT ![o] = @ + 1]
    /\ UNCHANGED <<operations, req, channel_ids, result, response, faults, dropped, senderLog, side>>

\* Err(e) => update_channel_status(channel_id, "failed", Some(format!("{:?}", e)), true)
ChannelFailed(o) ==
    /\ pc[o] = "ch_failed"
    /\ operation_channels' =
           UpdateChannelStatus(operation_channels, channel_ids[o][idx[o]][2], "failed",
                               Debug(result[o]), TRUE)
    /\ pc' = [pc EXCEPT ![o] = "op_failed"]
    /\ UNCHANGED <<operations, req, channel_ids, idx, result, response, faults, dropped, senderLog, side>>

\* mutant: failed is written to the Operation for the first failing channel only
OperationFailed_KeepFirst(o) ==
    /\ pc[o] = "op_failed"
    /\ operations' = IF operations[o].status = "failed" THEN operations
                     ELSE UpdateOperationStatus(operations, o, "failed", Debug(result[o]))
    /\ pc' = [pc EXCEPT ![o] = AfterChannel(o)]
    /\ idx' = [idx EXCEPT ![o] = @ + 1]
    /\ UNCHANGED <<operation_channels, req, channel_ids, result, response, faults, dropped, senderLog, side>>

\* ... then update_operation_status(op_id, "failed", Some(format!("{:?}", e)))
OperationFailed(o) ==
    /\ pc[o] = "op_failed"
    /\ operations' = UpdateOperationStatus(operations, o, "failed", Debug(result[o]))
    /\ pc' = [pc EXCEPT ![o] = AfterChannel(o)]
    /\ idx' = [idx EXCEPT ![o] = @ + 1]
    /\ UNCHANGED <<operation_channels, req, channel_ids, result, response, faults, dropped, senderLog, side>>

\* 5) list_channels_for_operation, all_done; not all done: return Ok(())
ListChannels(o) ==
    /\ pc[o] = "list"
    /\ IF AllDone(ListChannelsForOperation(operation_channels, o))
       THEN /\ pc' = [pc EXCEPT ![o] = "op_done"]
            /\ UNCHANGED result
       ELSE /\ pc' = [pc EXCEPT ![o] = "returned"]
            /\ result' = [result EXCEPT ![o] = OK]
    /\ UNCHANGED <<operations, operation_channels, req, channel_ids, idx, response,
                   faults, dropped, senderLog, side>>

\* all_done: update_operation_status(op_id, "done", None); return Ok(())
OperationDone(o) ==
    /\ pc[o] = "op_done"
    /\ operations' = UpdateOperationStatus(operations, o, "done", NULL)
    /\ pc' = [pc EXCEPT ![o] = "returned"]
    /\ result' = [result EXCEPT ![o] = OK]
    /\ UNCHANGED <<operation_channels, req, channel_ids, idx, response, faults, dropped, senderLog, side>>

\* ------------------------------------------ the handler after the dispatcher
\* sync, Ok(_): 200
SyncOk(o) ==
    /\ pc[o] = "returned"
    /\ ~req[o].async_send
    /\ result[o] = OK
    /\ response' = [response EXCEPT ![o] = 200]
    /\ pc' = [pc EXCEPT ![o] = "end"]
    /\ UNCHANGED <<operations, operation_channels, req, channel_ids, idx, result,
                   faults, dropped, senderLog, side>>

\* sync, Err(e): mark_operation_failed(op_id, format!("Send failed: {}", e)); 500
SyncErr(o) ==
    /\ pc[o] = "returned"
    /\ ~req[o].async_send
    /\ result[o] /= OK
    /\ operations' = MarkOperationFailed(operations, o, <<"Send failed: ">> \o Display(result[o]), now)
    /\ response' = [response EXCEPT ![o] = 500]
    /\ pc' = [pc EXCEPT ![o] = "end"]
    /\ UNCHANGED <<operation_channels, req, channel_ids, idx, result, faults, dropped, senderLog, side>>

\* spawned task, Ok: nothing more
AsyncOk(o) ==
    /\ pc[o] = "returned"
    /\ req[o].async_send
    /\ result[o] = OK
    /\ pc' = [pc EXCEPT ![o] = "end"]
    /\ UNCHANGED <<operations, operation_channels, req, channel_ids, idx, result,
                   response, faults, dropped, senderLog, side>>

\* spawned task, Err(e): mark_operation_failed(op_id, format!("Async task error: {:?}", e))
AsyncErr(o) ==
    /\ pc[o] = "returned"
    /\ req[o].async_send
    /\ result[o] /= OK
    /\ operations' =
           MarkOperationFailed(operations, o, <<"Async task error: ">> \o Debug(result[o]), now)
    /\ pc' = [pc EXCEPT ![o] = "end"]
    /\ UNCHANGED <<operation_channels, req, channel_ids, idx, result, response, faults, dropped, senderLog, side>>

\* ------------------------------------------------------- store failures
\* create_operation fails: 500 "Operation creation failed", no row, no dispatcher
CreateOperationFails(o, r) ==
    /\ pc[o] = "idle"
    /\ \A p \in Ops : p < o => pc[p] /= "idle"
    /\ faults < MaxStoreFaults
    /\ faults' = faults + 1
    /\ req' = [req EXCEPT ![o] = r]
    /\ response' = [response EXCEPT ![o] = 500]
    /\ pc' = [pc EXCEPT ![o] = "end"]
    /\ UNCHANGED <<operations, operation_channels, channel_ids, idx, result, dropped, senderLog, side>>

\* the .context(..) each store call of process_notification puts on its error
StoreContext(at) ==
    IF at \in {"op_running", "op_failed", "op_done"} THEN "Failed to update operation status"
    ELSE IF at = "create" THEN "Error creando operation_channel"
    ELSE "Error actualizando operation_channel"

\* a store call of process_notification fails and `?` returns the error
StoreAccessFails(o) ==
    /\ pc[o] \in {"op_running", "create", "ch_running", "ch_done", "ch_failed",
                  "op_failed", "list", "op_done"}
    /\ faults < MaxStoreFaults
    /\ faults' = faults + 1
    /\ result' = [result EXCEPT ![o] =
           IF pc[o] = "list" THEN StoreError ELSE Context(StoreContext(pc[o]), StoreError)]
    /\ pc' = [pc EXCEPT ![o] = "returned"]
    /\ UNCHANGED <<operations, operation_channels, req, channel_ids, idx, response,
                   dropped, senderLog, side>>

\* let _ = mark_operation_failed(..): its error is dropped
MarkOperationFailedFails(o) ==
    /\ pc[o] = "returned"
    /\ result[o] /= OK
    /\ faults < MaxStoreFaults
    /\ faults' = faults + 1
    /\ response' = [response EXCEPT ![o] = IF req[o].async_send THEN @ ELSE 500]
    /\ pc' = [pc EXCEPT ![o] = "end"]
    /\ dropped' = [dropped EXCEPT ![o] = TRUE]
    /\ UNCHANGED <<operations, operation_channels, req, channel_ids, idx, result, senderLog, side>>

Next ==
    \/ \E o \in Ops, r \in Requests : SendUnifiedNotificationEndpoint(o, r)
    \/ \E o \in Ops : RespondAsync(o)
    \/ \E o \in Ops : OperationRunning(o)
    \/ \E o \in Ops, rendered \in BOOLEAN : GeneratePdf(o, rendered)
    \/ \E o \in Ops : CreateChannelRow(o)
    \/ \E o \in Ops : ChannelRunning(o)
    \/ \E o \in Ops, outcome \in EmailOutcomes \cup GatewayOutcomes \cup {"none"} :
           InvokeSender(o, outcome)
    \/ \E o \in Ops : ChannelDone(o)
    \/ \E o \in Ops : ChannelFailed(o)
    \/ \E o \in Ops : OperationFailed(o)
    \/ \E o \in Ops : ListChannels(o)
    \/ \E o \in Ops : OperationDone(o)
    \/ \E o \in Ops : SyncOk(o)
    \/ \E o \in Ops : SyncErr(o)
    \/ \E o \in Ops : AsyncOk(o)
    \/ \E o \in Ops : AsyncErr(o)
    \/ \E o \in Ops, r \in Requests : CreateOperationFails(o, r)
    \/ \E o \in Ops : StoreAccessFails(o)
    \/ \E o \in Ops : MarkOperationFailedFails(o)

\* One request from its arrival to its answer.  The clock is read at the two ends
\* of the request only and steers nothing in between: here it stands still, and
\* it advances between calls in SpecOperations, SpecEmail and SpecCreate.
Spec == Init /\ [][Next]_vars

\* ====================================================================
\* The channel registry on its own: any caller, any sequence of calls
\* ====================================================================
\* the (status, error_message) pairs update_channel_status is called with
RegistryCalls == {<<"running", NULL>>, <<"done", NULL>>, <<"failed", Anyhow("SmtpTransport")>>}

others == <<operations, req, pc, channel_ids, idx, result, response, faults, dropped, senderLog, side>>

\* NotificationChannelService::create_channel called by any caller
RegistryCreateChannel(operation_id, channel, initial_status) ==
    /\ Len(operation_channels) < MaxRows
    /\ operation_channels' = CreateChannel(operation_channels, operation_id, channel, initial_status)
    /\ UNCHANGED others

\* NotificationChannelService::update_channel_status called by any caller; an id
\* that matches no row updates nothing
RegistryUpdateChannelStatus(channel_id, status, error_message, increment_attempt) ==
    /\ (increment_attempt /\ channel_id \in DOMAIN operation_channels)
           => operation_channels[channel_id].attempts < MaxAttempts
    /\ operation_channels' =
           UpdateChannelStatus(operation_channels, channel_id, status, error_message, increment_attempt)
    /\ UNCHANGED others

NextRegistry ==
    \/ \E o \in Ops, st \in Statuses : RegistryCreateChannel(o, "email", st)
    \/ \E c \in 1..MaxRows, call \in RegistryCalls, inc \in BOOLEAN :
           RegistryUpdateChannelStatus(c, call[1], call[2], inc)

SpecRegistry == Init /\ [][NextRegistry]_vars

\* --------------------------------------------------------------- C9
\* C9: over any sequence of update_channel_status calls, attempts of a row is never
\* negative and never decreases; a call with increment_attempt = true raises it by
\* exactly 1 and a call with increment_attempt = false leaves it unchanged.
C9_AttemptsCounter ==
    [][/\ \A c \in DOMAIN operation_channels :
              /\ operation_channels[c].attempts >= 0
              /\ operation_channels'[c].attempts >= operation_channels[c].attempts
       /\ \A c \in DOMAIN operation_channels, call \in RegistryCalls :
              /\ RegistryUpdateChannelStatus(c, call[1], call[2], TRUE) =>
                     operation_channels'[c].attempts = operation_channels[c].attempts + 1
              /\ RegistryUpdateChannelStatus(c, call[1], call[2], FALSE) =>
                     operation_channels'[c].attempts = operation_channels[c].attempts]_vars

\* C9 witness: a row that was bumped twice and then updated again
C9_Witness ==
    \E c \in DOMAIN operation_channels :
        /\ operation_channels[c].attempts >= 2
        /\ operation_channels[c].status = "running"
        /\ operation_channels[c].error_message = NULL

\* ====================================================================
\* The operation registry on its own: any caller, any sequence of calls,
\* the endpoints of /api/operations, and EmailService::send_email
\* ====================================================================
\* what these calls never write
dispatcher == <<operation_channels, req, pc, channel_ids, idx, result, response, dropped,
                senderLog, pdf, wa, smtp, attach>>

\* the ids a caller names: the earlier operation's and one more
OperationIds == {Earlier, 1}

\* Uuid::new_v4(): an id no row has
NewV4(tbl) == OperationIds \ DOMAIN tbl

\* the CreateOperationRequest bodies POST /api/operations is called with
OperationRequests ==
    {[operation_type |-> "generate_pdf", is_async |-> FALSE, metadata |-> NULL],
     [operation_type |-> "send_email", is_async |-> TRUE, metadata |-> <<"smtp_host">>]}

\* the (status, error_message) pairs the update calls are made with
OperationCalls == {<<"running", NULL>>, <<"done", NULL>>, <<"failed", Anyhow("SmtpTransport")>>}

\* time passes between any two calls
Tick ==
    /\ now < MaxTime
    /\ now' = now + 1
    /\ UNCHANGED <<operations, faults, emails, email_task, reply, dispatcher>>

\* POST /api/operations: create_operation(body), 200 with the new id
CreateOperationEndpoint(id, r) ==
    /\ id \in NewV4(operations)
    /\ operations' = CreateOperation(operations, id, r, now)
    /\ reply' = [endpoint |-> "create_operation", status |-> 200, id |-> id]
    /\ UNCHANGED <<now, faults, emails, email_task, dispatcher>>

\* OperationService::update_operation called by any caller
RegistryUpdateOperation(id, new_status, error_message) ==
    /\ operations' = UpdateOperation(operations, id, new_status, error_message, now)
    /\ reply' = NoReply
    /\ UNCHANGED <<now, faults, emails, email_task, dispatcher>>

\* OperationService::update_operation_status called by any caller
RegistryUpdateOperationStatus(id, status, error) ==
    /\ operations' = UpdateOperationStatus(operations, id, status, error)
    /\ reply' = NoReply
    /\ UNCHANGED <<now, faults, emails, email_task, dispatcher>>

\* OperationService::mark_operation_failed called by any caller
RegistryMarkOperationFailed(id, error) ==
    /\ operations' = MarkOperationFailed(operations, id, error, now)
    /\ reply' = NoReply
    /\ UNCHANGED <<now, faults, emails, email_task, dispatcher>>

\* ------------------------------------------------------ GET /api/operations/{id}
\* OperationService::get_operation: fetch_one WHERE id, then created_at and
\* updated_at are parsed into DateTime<Utc>; every error is returned with `?`
GetOperation(tbl, id) ==
    IF id \notin DOMAIN tbl
    THEN [ok |-> FALSE,
          error |-> Context("No se encontro operacion con ese id", Anyhow("RowNotFound"))]
    ELSE IF ParseDateTime(tbl[id].created_at)[1] = "Err"
    THEN [ok |-> FALSE, error |-> Anyhow(ParseDateTime(tbl[id].created_at)[2])]
    ELSE IF ParseDateTime(tbl[id].updated_at)[1] = "Err"
    THEN [ok |-> FALSE, error |-> Anyhow(ParseDateTime(tbl[id].updated_at)[2])]
    ELSE [ok |-> TRUE,
          record |-> [id |-> id,
                      operation_type |-> tbl[id].operation_type,
                      status |-> tbl[id].status,
                      error_message |-> tbl[id].error_message,
                      is_async |-> tbl[id].is_async,
                      created_at |-> ParseDateTime(tbl[id].created_at)[2],
                      updated_at |-> ParseDateTime(tbl[id].updated_at)[2],
                      metadata |-> tbl[id].metadata]]

\* mutant: a read that stamps updated_at on the row it returns
GetOperationEndpoint_Touch(id) ==
    /\ reply' = IF GetOperation(operations, id).ok
                THEN [endpoint |-> "get_operation", id |-> id, status |-> 200,
                      body |-> GetOperation(operations, id).record]
                ELSE [endpoint |-> "get_operation", id |-> id, status |-> 404,
                      body |-> Debug(GetOperation(operations, id).error)]
    /\ operations' = [o \in DOMAIN operations |->
           IF o = id THEN [operations[o] EXCEPT !.updated_at = ToRfc3339(now)]
           ELSE operations[o]]
    /\ UNCHANGED <<now, faults, emails, email_task, dispatcher>>

\* get_operation_endpoint: Ok => 200 with the record, Err(e) => 404 with {:?} of e
GetOperationEndpoint(id) ==
    /\ reply' = IF GetOperation(operations, id).ok
                THEN [endpoint |-> "get_operation", id |-> id, status |-> 200,
                      body |-> GetOperation(operations, id).record]
                ELSE [endpoint |-> "get_operation", id |-> id, status |-> 404,
                      body |-> Debug(GetOperation(operations, id).error)]
    /\ UNCHANGED <<operations, now, faults, emails, email_task, dispatcher>>

\* get_operation_endpoint when the SELECT itself fails: Err(e) => 404
GetOperationStoreFails(id) ==
    /\ faults < MaxStoreFaults
    /\ faults' = faults + 1
    /\ reply' = [endpoint |-> "get_operation", id |-> id, status |-> 404,
                 body |-> Debug(Context("No se encontro operacion con ese id", StoreError))]
    /\ UNCHANGED <<operations, now, emails, email_task, dispatcher>>

\* --------------------------------------------------------- GET /api/operations
\* how SQLite compares two timestamp texts: the two formats differ first at the
\* separator after the date, ' ' before 'T'; within a format, by the instant
TextLeq(a, b) ==
    IF a.format = b.format THEN a.instant <= b.instant ELSE a.format = "sqlite"

\* ORDER BY created_at DESC: the orders of the rows the statement allows; rows of
\* equal created_at come in an order the statement does not fix
OrderByCreatedAtDesc(tbl) ==
    {ord \in [1..Cardinality(DOMAIN tbl) -> DOMAIN tbl] :
        /\ \A i, j \in DOMAIN ord : i /= j => ord[i] /= ord[j]
        /\ \A i, j \in DOMAIN ord : i < j => TextLeq(tbl[ord[j]].created_at, tbl[ord[i]].created_at)}

\* one item of the list: the row as it is stored, timestamps as texts
OperationStatusResponse(tbl, id) ==
    [id |-> id,
     operation_type |-> tbl[id].operation_type,
     status |-> tbl[id].status,
     error_message |-> tbl[id].error_message,
     is_async |-> tbl[id].is_async,
     created_at |-> tbl[id].created_at,
     updated_at |-> tbl[id].updated_at,
     metadata |-> tbl[id].metadata]

Min(a, b) == IF a <= b THEN a ELSE b

\* a u64 reinterpreted as i64 (`offset as i64`, `page_size as i64`): the upper half
\* of the unsigned range becomes negative
AsI64(u) == IF u >= 2^(WordBits - 1) THEN u - 2^WordBits ELSE u

\* let offset = (page - 1) * page_size, in u64: the value a build without overflow
\* checks computes
Offset(page, page_size) == ((page - 1) * page_size) % 2^WordBits

\* the subtraction or the multiplication leaves u64: a build with overflow checks
\* panics there
Overflows(page, page_size) == page = 0 \/ (page - 1) * page_size >= 2^WordBits

\* LIMIT ?1 OFFSET ?2 with page_size as i64 and offset as i64: SQLite takes a
\* negative OFFSET as 0 and a negative LIMIT as no limit
Page(ord, page, page_size) ==
    LET offset_i64 == AsI64(Offset(page, page_size))
        page_size_i64 == AsI64(page_size)
        skipped == IF offset_i64 < 0 THEN 0 ELSE offset_i64
    IN  SubSeq(ord, skipped + 1,
               IF page_size_i64 < 0 THEN Len(ord) ELSE Min(skipped + page_size_i64, Len(ord)))

\* OperationService::list_operations: the answers it can give on the table tbl
ListOperations(tbl, page, page_size) ==
    {[total |-> Cardinality(DOMAIN tbl), page |-> page, page_size |-> page_size,
      items |-> [k \in DOMAIN Page(ord, page, page_size) |->
                    OperationStatusResponse(tbl, Page(ord, page, page_size)[k])]] :
        ord \in OrderByCreatedAtDesc(tbl)}

Pages == 1..MaxPage
PageSizes == 1..MaxPageSize

\* list_operations_endpoint: Ok => 200 with the list
ListOperationsEndpoint(page, page_size) ==
    /\ \E list \in ListOperations(operations, page, page_size) :
           reply' = [endpoint |-> "list_operations", status |-> 200, body |-> list]
    /\ UNCHANGED <<operations, now, faults, emails, email_task, dispatcher>>

\* list_operations_endpoint when a SELECT fails: Err(e) => 500
ListOperationsStoreFails ==
    /\ faults < MaxStoreFaults
    /\ faults' = faults + 1
    /\ reply' = [endpoint |-> "list_operations", status |-> 500, body |-> Debug(StoreError)]
    /\ UNCHANGED <<operations, now, emails, email_task, dispatcher>>

\* ------------------------------------------------- EmailService::send_email
\* what the SMTP relay answers to send_email_via_smtp
SmtpOutcomes == {"sent", "smtp_error"}

\* create_email_operation: the CreateOperationRequest of a plain email
EmailOperation(async_send) ==
    [operation_type |-> "send_email", is_async |-> async_send, metadata |-> <<"smtp_host">>]

\* send_email: create_email_operation
SendEmail(id, async_send) ==
    /\ email_task.pc = "idle"
    /\ id \in NewV4(operations)
    /\ operations' = CreateOperation(operations, id, EmailOperation(async_send), now)
    /\ email_task' = [pc |-> "insert", id |-> id, result |-> OK]
    /\ reply' = NoReply
    /\ UNCHANGED <<now, faults, emails, dispatcher>>

\* send_email: insert_email_record, INSERT INTO emails (.., 'pending', ..); then
\* handle_sync_email, awaited by the caller or by the spawned task
InsertEmailRecord ==
    /\ email_task.pc = "insert"
    /\ emails' = Append(emails, [operation_id |-> email_task.id, status |-> "pending",
                                 error_message |-> NULL])
    /\ email_task' = [email_task EXCEPT !.pc = "running"]
    /\ UNCHANGED <<operations, now, faults, reply, dispatcher>>

\* handle_sync_email: update_operation_status(operation_id, "running", None)
EmailOperationRunning ==
    /\ email_task.pc = "running"
    /\ operations' = UpdateOperationStatus(operations, email_task.id, "running", NULL)
    /\ email_task' = [email_task EXCEPT !.pc = "smtp"]
    /\ reply' = NoReply
    /\ UNCHANGED <<now, faults, emails, dispatcher>>

\* handle_sync_email: send_email_via_smtp(&req)
SendEmailViaSmtp(outcome) ==
    /\ email_task.pc = "smtp"
    /\ email_task' = [email_task EXCEPT
           !.pc = "status_operations",
           !.result = IF outcome = "sent" THEN OK ELSE Anyhow("SmtpTransport")]
    /\ UNCHANGED <<operations, now, faults, emails, reply, dispatcher>>

\* the status and error handle_sync_email passes to update_email_status
EmailStatus(res) == IF res = OK THEN "sent" ELSE "failed"
EmailError(res) == IF res = OK THEN NULL ELSE Debug(res)

\* update_email_status, first statement: UPDATE operations SET status, error_message
UpdateEmailStatusOperations ==
    /\ email_task.pc = "status_operations"
    /\ operations' = UpdateOperationStatus(operations, email_task.id,
                         EmailStatus(email_task.result), EmailError(email_task.result))
    /\ email_task' = [email_task EXCEPT !.pc = "status_emails"]
    /\ reply' = NoReply
    /\ UNCHANGED <<now, faults, emails, dispatcher>>

\* mutant: the second statement binds the status only and leaves error_message NULL
UpdateEmailStatusEmails_NoError ==
    /\ email_task.pc = "status_emails"
    /\ emails' = [e \in DOMAIN emails |->
           IF emails[e].operation_id = email_task.id
           THEN [emails[e] EXCEPT !.status = EmailStatus(email_task.result)]
           ELSE emails[e]]
    /\ email_task' = [email_task EXCEPT !.pc = "end"]
    /\ UNCHANGED <<operations, now, faults, reply, dispatcher>>

\* update_email_status, second statement: UPDATE emails SET status, error_message
\* WHERE operation_id
UpdateEmailStatusEmails ==
    /\ email_task.pc = "status_emails"
    /\ emails' = [e \in DOMAIN emails |->
           IF emails[e].operation_id = email_task.id
           THEN [emails[e] EXCEPT !.status = EmailStatus(email_task.result),
                                  !.error_message = EmailError(email_task.result)]
           ELSE emails[e]]
    /\ email_task' = [email_task EXCEPT !.pc = "end"]
    /\ UNCHANGED <<operations, now, faults, reply, dispatcher>>

\* a store call of send_email fails and `?` returns the error
EmailStoreAccessFails ==
    /\ email_task.pc \in {"insert", "running", "status_operations", "status_emails"}
    /\ faults < MaxStoreFaults
    /\ faults' = faults + 1
    /\ email_task' = [email_task EXCEPT !.pc = "end", !.result = StoreError]
    /\ UNCHANGED <<operations, now, emails, reply, dispatcher>>

NextOperations ==
    \/ Tick
    \/ \E id \in OperationIds, r \in OperationRequests : CreateOperationEndpoint(id, r)
    \/ \E id \in OperationIds, call \in OperationCalls :
           RegistryUpdateOperation(id, call[1], call[2])
    \/ \E id \in OperationIds, call \in OperationCalls :
           RegistryUpdateOperationStatus(id, call[1], call[2])
    \/ \E id \in OperationIds : RegistryMarkOperationFailed(id, Anyhow("Send failed: "))
    \/ \E id \in OperationIds : GetOperationEndpoint(id)
    \/ \E id \in OperationIds : GetOperationStoreFails(id)
    \/ \E page \in Pages, page_size \in PageSizes : ListOperationsEndpoint(page, page_size)
    \/ ListOperationsStoreFails

SpecOperations == Init /\ [][NextOperations]_vars

\* EmailService::send_email and the readers of the operations it writes
NextEmail ==
    \/ Tick
    \/ \E id \in OperationIds, async_send \in BOOLEAN : SendEmail(id, async_send)
    \/ InsertEmailRecord
    \/ EmailOperationRunning
    \/ \E outcome \in SmtpOutcomes : SendEmailViaSmtp(outcome)
    \/ UpdateEmailStatusOperations
    \/ UpdateEmailStatusEmails
    \/ EmailStoreAccessFails
    \/ \E id \in OperationIds : GetOperationEndpoint(id)

SpecEmail == Init /\ [][NextEmail]_vars

\* the two creating calls among the writes that give rows their other states
NextCreate ==
    \/ Tick
    \/ \E id \in OperationIds, r \in OperationRequests : CreateOperationEndpoint(id, r)
    \/ \E id \in OperationIds : RegistryMarkOperationFailed(id, Anyhow("Send failed: "))
    \/ \E o \in OperationIds, st \in Statuses : RegistryCreateChannel(o, "whatsapp", st)

SpecCreate == Init /\ [][NextCreate]_vars

\* ====================================================================
\* Properties
\* ====================================================================
ChannelsOf(o) == {c \in DOMAIN operation_channels : operation_channels[c].operation_id = o}

Created(o) == o \in DOMAIN operations

\* the handling of the request of o is over: handler answered, task ended
Finished(o) == pc[o] = "end" /\ Created(o)

\* the run of o ended in the PDF render's error
PdfFailed(o) == result[o] = PdfError

Terminal == {"done", "failed"}

AllChannelsDone(o) == \A c \in ChannelsOf(o) : operation_channels[c].status = "done"

StatusSteps == {<<"pending", "running">>, <<"running", "done">>, <<"running", "failed">>}

\* C2 as stated: every change of the status of an Operation row is one of
\* pending -> running, running -> done, running -> failed.
C2_AsStated ==
    [][\A o \in Ops : (Created(o) /\ operations'[o].status /= operations[o].status) =>
          <<operations[o].status, operations'[o].status>> \in StatusSteps]_vars

\* C2 amended: every change of the status is pending -> running, running -> done or
\* running -> failed, or pending -> failed written by the handler's
\* mark_operation_failed when the initial write of running itself failed.
C2_Monotone ==
    [][\A o \in Ops : (Created(o) /\ operations'[o].status /= operations[o].status) =>
          \/ <<operations[o].status, operations'[o].status>> \in StatusSteps
          \/ /\ <<operations[o].status, operations'[o].status>> = <<"pending", "failed">>
             /\ result[o] = Context("Failed to update operation status", StoreError)
             /\ pc'[o] = "end"]_vars

\* C2 witness: the handler marked failed an operation that never was running
C2_Witness ==
    \E o \in Ops : /\ Finished(o) /\ operations[o].status = "failed"
                   /\ result[o] = Context("Failed to update operation status", StoreError)
                   /\ ChannelsOf(o) = {} /\ ~dropped[o]

\* -------------------------------------------------------------- C3
\* C3 as stated (taken for the runs in which no store access failed): once an
\* Operation row is done or failed, neither its status nor its error_message changes.
C3_AsStated ==
    [][\A o \in Ops : (Created(o) /\ operations[o].status \in Terminal /\ faults' = 0) =>
          operations'[o] = operations[o]]_vars

\* C3 amended: a done row is never written again; a failed row keeps status failed,
\* while its error_message is overwritten by each later failing channel and by
\* mark_operation_failed when process_notification returns an error.
C3_TerminalStatusKept ==
    [][\A o \in Ops : Created(o) =>
          /\ operations[o].status = "done" => operations'[o] = operations[o]
          /\ operations[o].status = "failed" => operations'[o].status = "failed"]_vars

\* C3 witness: two channel rows of one operation failed with different errors, and
\* the operation carries the error of the second
C3_Witness ==
    \E o \in Ops : \E c, d \in ChannelsOf(o) :
        /\ c < d
        /\ operation_channels[c].status = "failed"
        /\ operation_channels[d].status = "failed"
        /\ operation_channels[c].error_message /= operation_channels[d].error_message
        /\ operations[o].status = "failed"
        /\ operations[o].error_message = operation_channels[d].error_message

\* -------------------------------------------------------------- C4
\* C4 as stated (taken for the runs in which no store access failed): in every
\* state, O is failed iff at least one of its channel rows is failed and none of
\* its channel rows is pending or running.
C4_AsStated ==
    \A o \in Ops : (Created(o) /\ faults = 0) =>
        (operations[o].status = "failed" <=>
            /\ \E c \in ChannelsOf(o) : operation_channels[c].status = "failed"
            /\ \A c \in ChannelsOf(o) : operation_channels[c].status \in Terminal)

\* C4 amended: O is written failed as soon as one channel fails, while later
\* channels are still pending.  In every state a failed O has a failed channel row
\* or its process_notification returned an error that the handler recorded; once a
\* run has finished with process_notification returning Ok, O is failed iff at
\* least one of its channel rows is failed, and none of its rows is pending or running.
C4_FailedAggregate ==
    \A o \in Ops : Created(o) =>
        /\ operations[o].status = "failed" =>
               \/ \E c \in ChannelsOf(o) : operation_channels[c].status = "failed"
               \/ Finished(o) /\ result[o] /= OK
        /\ (Finished(o) /\ result[o] = OK) =>
               /\ operations[o].status = "failed" <=>
                      \E c \in ChannelsOf(o) : operation_channels[c].status = "failed"
               /\ \A c \in ChannelsOf(o) : operation_channels[c].status \in Terminal

\* C4 witness: O already failed while a later channel of the request is pending
C4_Witness ==
    \E o \in Ops : /\ Created(o) /\ faults = 0
                   /\ operations[o].status = "failed"
                   /\ \E c \in ChannelsOf(o) : operation_channels[c].status = "failed"
                   /\ \E c \in ChannelsOf(o) : operation_channels[c].status = "pending"

\* -------------------------------------------------------------- C5
\* the channel row the dispatcher created for position j of the request
RowAt(o, j) == operation_channels[channel_ids[o][j][2]]

SenderFailedAt(o, i) == i <= Len(senderLog[o]) /\ ~senderLog[o][i].ok

\* position j was moved on, its send step ran, and its row ended by its own outcome
ProcessedOnItsOwn(o, j) ==
    /\ j <= Len(senderLog[o])
    /\ senderLog[o][j].pos = j
    /\ RowAt(o, j).status \in Terminal
    /\ RowAt(o, j).status = "done" <=> senderLog[o][j].ok

C6_AsStated ==
    \A o \in Ops : (Finished(o) /\ PdfFailed(o) /\ ~dropped[o]) =>
        /\ operations[o].status = "failed"
        /\ Range(RenderError) \subseteq Range(operations[o].error_message)
        /\ ChannelsOf(o) = {}
        /\ senderLog[o] = <<>>

\* -------------------------------------------------------------- C7
\* C7 as stated (for the runs in which no store access failed): a synchronous
\* request is answered 200 iff its Operation ended done, 500 iff it ended failed.
C7_AsStated ==
    \A o \in Ops : (Finished(o) /\ ~req[o].async_send /\ faults = 0) =>
        /\ response[o] = 200 <=> operations[o].status = "done"
        /\ response[o] = 500 <=> operations[o].status = "failed"

\* -------------------------------------------------------------- C8
\* the detached run of o failed: a channel sender failed or process_notification
\* returned an error
RunFailed(o) ==
    \/ result[o] /= OK
    \/ \E i \in 1..Len(senderLog[o]) : ~senderLog[o][i].ok

Recorded(o) == operations[o].status = "failed" /\ operations[o].error_message /= NULL

C10_AttemptsMatchStatus ==
    \A o \in Ops : \A c \in ChannelsOf(o) :
        operation_channels[c].attempts =
            IF operation_channels[c].status = "failed" THEN 1 ELSE 0

\* C10 witness: a reader sees a failed row with attempts = 1 while the dispatcher
\* is still at work on that operation
C10_Witness ==
    \E o \in Ops : \E c \in ChannelsOf(o) :
        /\ pc[o] \notin {"end", "returned"}
        /\ operation_channels[c].status = "failed"
        /\ operation_channels[c].attempts = 1

\* ------------------------------------------------------------- C11
Supported == {"email", "whatsapp"}

UnknownAt(o, j) == req[o].channels[j] \notin Supported

\* position j has a row of its own that is failed with the unsupported-channel
\* error, and its send step invoked no sender
UnknownRecorded(o, j) ==
    /\ j <= Len(channel_ids[o])
    /\ RowAt(o, j).operation_id = o
    /\ RowAt(o, j).channel = req[o].channels[j]
    /\ RowAt(o, j).status = "failed"
    /\ RowAt(o, j).error_message = Anyhow("Canal no soportado: " \o req[o].channels[j])
    /\ j <= Len(senderLog[o])
    /\ ~senderLog[o][j].invoked

EmptyChannels(o) == Len(req[o].channels) = 0

\* no channel row of o, no send step of o, and o done with no error_message
DoneWithoutChannels(o) ==
    /\ ChannelsOf(o) = {}
    /\ senderLog[o] = <<>>
    /\ operations[o].status = "done"
    /\ operations[o].error_message = NULL

MissingConfigAt(o, j) ==
    \/ req[o].channels[j] = "email" /\ ~req[o].email_config
    \/ req[o].channels[j] = "whatsapp" /\ ~req[o].whatsapp_config

\* the errors the senders build before any network call
ConfigurationErrors ==
    {Anyhow("Falta email_config para canal email"),
     Anyhow("No se proporciono whatsapp_config"),
     Anyhow("No se definio WHATSAPP_API_URL")}

\* the row of position j is failed with a configuration error and its sender
\* returned before its first network call
ConfigFailureRecorded(o, j) ==
    /\ j <= Len(senderLog[o])
    /\ senderLog[o][j].invoked
    /\ ~senderLog[o][j].network
    /\ RowAt(o, j).status = "failed"
    /\ RowAt(o, j).error_message \in ConfigurationErrors

RunningRows(o) == {c \in ChannelsOf(o) : operation_channels[c].status = "running"}

\* C14: the channel rows of an operation are created in request order; in every
\* state at most one of them is running, and a row has left pending only if every
\* row before it is done or failed.
C14_OneAtATimeInOrder ==
    \A o \in Ops : Created(o) =>
        /\ \A j \in 1..Len(channel_ids[o]) :
               /\ RowAt(o, j).channel = req[o].channels[j]
               /\ \A i \in 1..(j - 1) : channel_ids[o][i][2] < channel_ids[o][j][2]
        /\ Cardinality(RunningRows(o)) <= 1
        /\ \A c, d \in ChannelsOf(o) :
               (c < d /\ operation_channels[d].status /= "pending") =>
                   operation_channels[c].status \in Terminal

\* C14 witness: the first channel failed, the second is running, both rows of two
\* different tags
C14_Witness ==
    \E o \in Ops : /\ Len(channel_ids[o]) = 2
                   /\ RowAt(o, 1).status = "failed"
                   /\ RowAt(o, 2).status = "running"
                   /\ RowAt(o, 1).channel /= RowAt(o, 2).channel

\* ------------------------------------------------------------- C15
\* C15 as stated: in every state, whichever service wrote it, the status of every
\* Operation row is one of pending, running, done, failed.
C15_AsStated ==
    \A id \in DOMAIN operations : operations[id].status \in Statuses

\* ------------------------------------------------------------- C16
\* the record get_operation answers for a stored row: every column, timestamps
\* as the instants their texts denote
FullRecord(id) ==
    [id |-> id,
     operation_type |-> operations[id].operation_type,
     status |-> operations[id].status,
     error_message |-> operations[id].error_message,
     is_async |-> operations[id].is_async,
     created_at |-> operations[id].created_at.instant,
     updated_at |-> operations[id].updated_at.instant,
     metadata |-> operations[id].metadata]

\* C16 as stated (taken for the runs in which no store access failed): GET
\* /api/operations/{id} answers 200 with the full record for every id that has a
\* row, whatever calls were applied to the row, and 404 only for an id without a row.
C16_AsStated ==
    (reply.status /= 0 /\ reply.endpoint = "get_operation" /\ faults = 0) =>
        IF reply.id \in DOMAIN operations
        THEN reply.status = 200 /\ reply.body = FullRecord(reply.id)
        ELSE reply.status = 404

\* ------------------------------------------------------------- C17
\* C17 as stated: a call mark_operation_failed(id, error) leaves the table exactly
\* as update_operation_status(id, "failed", Some(error)) would have left it:
\* every column of every row.
C17_AsStated ==
    [][\A id \in OperationIds :
          RegistryMarkOperationFailed(id, Anyhow("Send failed: ")) =>
              operations' = UpdateOperationStatus(operations, id, "failed",
                                                  Anyhow("Send failed: "))]_vars

\* ------------------------------------------------------------- C18
\* the table after the step is the table before it plus one row under a new id
AddsOneOperation(id) ==
    /\ id \notin DOMAIN operations
    /\ DOMAIN operations' = DOMAIN operations \cup {id}
    /\ \A o \in DOMAIN operations : operations'[o] = operations[o]

AddsOneChannel ==
    /\ Len(operation_channels') = Len(operation_channels) + 1
    /\ \A c \in DOMAIN operation_channels : operation_channels'[c] = operation_channels[c]

\* C18: create_operation adds exactly one Operation row, under an id no row had,
\* with status pending, no error_message, created_at = updated_at = the time of the
\* call and the given operation_type, is_async and metadata, and changes no
\* existing row; create_channel adds exactly one row with the given operation,
\* channel and status, attempts = 0 and no error_message, and changes no existing row.
C18_CreateFrames ==
    [][/\ \A id \in OperationIds, r \in OperationRequests :
              CreateOperationEndpoint(id, r) =>
                  /\ AddsOneOperation(id)
                  /\ operations'[id] =
                         [operation_type |-> r.operation_type, status |-> "pending",
                          error_message |-> NULL, is_async |-> r.is_async,
                          created_at |-> ToRfc3339(now), updated_at |-> ToRfc3339(now),
                          metadata |-> r.metadata]
                  /\ operation_channels' = operation_channels
       /\ \A o \in OperationIds, st \in Statuses :
              RegistryCreateChannel(o, "whatsapp", st) =>
                  /\ AddsOneChannel
                  /\ operation_channels'[Len(operation_channels')] =
                         [operation_id |-> o, channel |-> "whatsapp", status |-> st,
                          error_message |-> NULL, attempts |-> 0]
                  /\ operations' = operations]_vars

\* C18 witness: an operation created after the clock had advanced, next to an
\* older row that was written since, and a channel row created done next to an
\* older row that failed
C18_Witness ==
    /\ \E id \in DOMAIN operations :
           /\ operations[id].created_at = ToRfc3339(1)
           /\ operations[id].updated_at = ToRfc3339(1)
           /\ operations[id].status = "pending"
           /\ operations[id].operation_type = "send_email"
    /\ operations[Earlier].updated_at = CurrentTimestamp(0)
    /\ Len(operation_channels) = 2
    /\ operation_channels[1].status = "failed" /\ operation_channels[1].attempts = 1
    /\ operation_channels[2].status = "done" /\ operation_channels[2].attempts = 0
    /\ operation_channels[2].channel = "whatsapp"

\* ------------------------------------------------------------- C19
\* C19 as stated: in every state and for every Operation row, the instant of
\* updated_at is not earlier than the instant of created_at.
C19_AsStated ==
    \A id \in DOMAIN operations :
        operations[id].updated_at.instant >= operations[id].created_at.instant

\* ------------------------------------------------------------- C20
\* the items are in descending created_at and, among equal created_at, in the
\* order of their ids taken in direction dir
OrderedByCreatedAtThenId(items, dir) ==
    \A i, j \in DOMAIN items : i < j =>
        /\ TextLeq(items[j].created_at, items[i].created_at)
        /\ items[i].created_at = items[j].created_at =>
               IF dir = "asc" THEN items[i].id < items[j].id ELSE items[i].id > items[j].id

\* C20 as stated: on every store state, list_operations has one answer per (page,
\* page_size): items in descending created_at with ties in the order of the ids,
\* and total the number of rows of the table.
C20_AsStated ==
    \E dir \in {"asc", "desc"} :
        \A page \in Pages, page_size \in PageSizes :
            /\ Cardinality(ListOperations(operations, page, page_size)) = 1
            /\ \A list \in ListOperations(operations, page, page_size) :
                   /\ list.total = Cardinality(DOMAIN operations)
                   /\ OrderedByCreatedAtThenId(list.items, dir)

\* ====================================================================
\* The read operations of the three tables among the writes to them
\* ====================================================================
\* NotificationChannelService::get_channel: fetch_one WHERE id = ?1; the two
\* timestamps are RFC 3339 texts written by create_channel and always parse
GetChannel(tbl, channel_id) ==
    IF channel_id \in DOMAIN tbl
    THEN [ok |-> TRUE,
          record |-> [id |-> channel_id,
                      operation_id |-> tbl[channel_id].operation_id,
                      channel |-> tbl[channel_id].channel,
                      status |-> tbl[channel_id].status,
                      error_message |-> tbl[channel_id].error_message,
                      attempts |-> tbl[channel_id].attempts]]
    ELSE [ok |-> FALSE,
          error |-> Context("No se encontro operation_channel", Anyhow("RowNotFound"))]

\* a caller of get_channel and the Result it receives
GetChannelCall(channel_id) ==
    /\ reply' = IF GetChannel(operation_channels, channel_id).ok
                THEN [endpoint |-> "get_channel", id |-> channel_id, status |-> 200,
                      body |-> GetChannel(operation_channels, channel_id).record]
                ELSE [endpoint |-> "get_channel", id |-> channel_id, status |-> 404,
                      body |-> Debug(GetChannel(operation_channels, channel_id).error)]
    /\ UNCHANGED <<operations, now, faults, emails, email_task, dispatcher>>

\* a caller of list_channels_for_operation and the Vec it receives
ListChannelsForOperationCall(operation_id) ==
    /\ reply' = [endpoint |-> "list_channels_for_operation", id |-> operation_id,
                 status |-> 200,
                 body |-> ListChannelsForOperation(operation_channels, operation_id)]
    /\ UNCHANGED <<operations, now, faults, emails, email_task, dispatcher>>

\* EmailService::get_email_status: fetch_one FROM emails WHERE operation_id = ?1
GetEmailStatus(tbl, operation_id) ==
    IF \E e \in DOMAIN tbl : tbl[e].operation_id = operation_id
    THEN [ok |-> TRUE,
          record |-> [id |-> operation_id,
                      status |-> tbl[CHOOSE e \in DOMAIN tbl :
                                        tbl[e].operation_id = operation_id].status,
                      error |-> tbl[CHOOSE e \in DOMAIN tbl :
                                        tbl[e].operation_id = operation_id].error_message]]
    ELSE [ok |-> FALSE,
          error |-> Context("Email operation not found", Anyhow("RowNotFound"))]

\* email_status_endpoint: Ok => 200; Err(e) => 404, as {} of e holds "not found"
EmailStatusEndpoint(operation_id) ==
    /\ reply' = IF GetEmailStatus(emails, operation_id).ok
                THEN [endpoint |-> "get_email_status", id |-> operation_id, status |-> 200,
                      body |-> GetEmailStatus(emails, operation_id).record]
                ELSE [endpoint |-> "get_email_status", id |-> operation_id, status |-> 404,
                      body |-> Display(GetEmailStatus(emails, operation_id).error)]
    /\ UNCHANGED <<operations, now, faults, emails, email_task, dispatcher>>

NextReads ==
    \/ Tick
    \/ \E id \in OperationIds : SendEmail(id, FALSE)
    \/ InsertEmailRecord
    \/ EmailOperationRunning
    \/ \E outcome \in SmtpOutcomes : SendEmailViaSmtp(outcome)
    \/ UpdateEmailStatusOperations
    \/ UpdateEmailStatusEmails
    \/ \E o \in Ops : RegistryCreateChannel(o, "email", "pending")
    \/ \E id \in OperationIds : GetOperationEndpoint(id)
    \/ \E id \in OperationIds : GetOperationStoreFails(id)
    \/ \E page_size \in PageSizes : ListOperationsEndpoint(1, page_size)
    \/ \E c \in 1..MaxRows : GetChannelCall(c)
    \/ \E o \in OperationIds : ListChannelsForOperationCall(o)
    \/ \E id \in OperationIds : EmailStatusEndpoint(id)

SpecReads == Init /\ [][NextReads]_vars

\* --------------------------------------------------------------- C21
\* the three tables
store == <<operations, operation_channels, emails>>

\* a step of one of the five read operations
ReadStep ==
    \/ \E id \in OperationIds : GetOperationEndpoint(id)
    \/ \E id \in OperationIds : GetOperationStoreFails(id)
    \/ \E page \in Pages, page_size \in PageSizes : ListOperationsEndpoint(page, page_size)
    \/ \E c \in 1..MaxRows : GetChannelCall(c)
    \/ \E o \in OperationIds : ListChannelsForOperationCall(o)
    \/ \E id \in OperationIds : EmailStatusEndpoint(id)

\* the reply is the answer to GET /api/operations/{id}
IsGet(rep, id) == rep /= NoReply /\ rep.endpoint = "get_operation" /\ rep.id = id

\* the store answered the SELECT behind the reply
StoreAnswered(rep) ==
    \/ rep.status = 200
    \/ rep.body /= Debug(Context("No se encontro operacion con ese id", StoreError))

\* the same status code and the same body
SamePayload(a, b) == a.status = b.status /\ a.body = b.body

beside_pdf == <<operations, operation_channels, req, pc, channel_ids, idx, result,
                response, faults, dropped, senderLog, now, emails, email_task, reply, wa,
                smtp, attach>>

\* PdfGlobalConfig::default()
GlobalConfig ==
    [default_orientation |-> "portrait", default_width |-> "8.5", default_height |-> "11.0",
     default_margin_top |-> "0.5", default_margin_bottom |-> "0.5",
     default_margin_left |-> "0.5", default_margin_right |-> "0.5"]

\* Option: None is NULL, Some(x) is the one-element sequence
Some(x) == <<x>>

\* the requests generate_pdf is called with
PdfRequests ==
    {NoPdfRequest,
     [size_category |-> Some("large"), orientation |-> Some("landscape"),
      scale |-> Some("0.8"),
      paper_size |-> Some([width |-> "11.0", height |-> "8.5"]),
      margins |-> Some([top |-> "1.0", bottom |-> "1.0", left |-> "1.0", right |-> "1.0"])],
     [size_category |-> NULL, orientation |-> Some("portrait"), scale |-> NULL,
      paper_size |-> Some([width |-> "11.0", height |-> "17.0"]), margins |-> NULL]}

\* req.size_category.unwrap_or_else(|| "small")
SizeCategory(r) == IF r.size_category = NULL THEN "small" ELSE r.size_category[1]

\* what the file system answers to create_dir_all, fs::write and canonicalize
FileOutcomes == {"written", "create_dir_failed", "open_failed", "write_failed",
                 "canonicalize_failed"}

\* the PrintToPdfParams built from the request and the global configuration
PrintToPdfParams(r) ==
    [landscape |-> FALSE,
     paper_width |-> IF r.paper_size = NULL THEN GlobalConfig.default_width
                     ELSE r.paper_size[1].width,
     paper_height |-> IF r.paper_size = NULL THEN GlobalConfig.default_height
                      ELSE r.paper_size[1].height,
     margin_top |-> IF r.margins = NULL THEN GlobalConfig.default_margin_top
                    ELSE r.margins[1].top,
     margin_bottom |-> IF r.margins = NULL THEN GlobalConfig.default_margin_bottom
                       ELSE r.margins[1].bottom,
     margin_left |-> IF r.margins = NULL THEN GlobalConfig.default_margin_left
                     ELSE r.margins[1].left,
     margin_right |-> IF r.margins = NULL THEN GlobalConfig.default_margin_right
                      ELSE r.margins[1].right,
     print_background |-> TRUE,
     prefer_css_page_size |-> FALSE,
     scale |-> "1.0",
     display_header_footer |-> FALSE]

\* mutant: generate_pdf returning the internal error with `?`, before page.close()
AfterInternal_Question(res) == IF res[1] = "Ok" THEN "close" ELSE "returned"

\* generate_pdf, step 3: whatever _generate_pdf_internal returned, the tab is closed next
AfterInternal(res) == "close"

\* a task calls generate_pdf(req)
GeneratePdfCall(c, r) ==
    /\ pdf_pc[c] = "idle"
    /\ calls < MaxCalls
    /\ calls' = calls + 1
    /\ pdf_req' = [pdf_req EXCEPT ![c] = r]
    /\ pdf_pc' = [pdf_pc EXCEPT ![c] = "new_page"]
    /\ tab' = [tab EXCEPT ![c] = 0]
    /\ file_path' = [file_path EXCEPT ![c] = 0]
    /\ print_pdf' = [print_pdf EXCEPT ![c] = NULL]
    /\ pdf_result' = [pdf_result EXCEPT ![c] = OK]
    /\ UNCHANGED <<tabs, tmp_files, unclosed, beside_pdf>>

\* the identifier of a new tab, which also stands for the Uuid::new_v4() in the name
\* of the call's temporary file: one that no tab, file or call has
NewId ==
    CHOOSE n \in 1..MaxCalls : n \notin tabs \cup tmp_files \cup {tab[d] : d \in PdfCallers}

\* generate_pdf, step 1: browser.new_page("about:blank"); an Err is returned at once
NewPage(c, ok) ==
    /\ pdf_pc[c] = "new_page"
    /\ IF ok
       THEN /\ tabs' = tabs \cup {NewId}
            /\ tab' = [tab EXCEPT ![c] = NewId]
            /\ pdf_pc' = [pdf_pc EXCEPT ![c] = "url"]
            /\ UNCHANGED pdf_result
       ELSE /\ pdf_result' = [pdf_result EXCEPT
                                 ![c] = Anyhow("No se pudo crear nueva pagina (tab): ")]
            /\ pdf_pc' = [pdf_pc EXCEPT ![c] = "returned"]
            /\ UNCHANGED <<tabs, tab>>
    /\ UNCHANGED <<tmp_files, calls, unclosed, pdf_req, file_path, print_pdf, beside_pdf>>

\* _generate_pdf_internal, step 1: a data: url, or for size_category "large" the
\* html written to ./tmp/temp_<uuid>.html and a file: url; every Err returns with `?`
FinalUrl(c, outcome) ==
    /\ pdf_pc[c] = "url"
    /\ IF SizeCategory(pdf_req[c]) = "large"
       THEN /\ file_path' = [file_path EXCEPT
                                ![c] = IF outcome = "create_dir_failed" THEN 0 ELSE tab[c]]
            /\ tmp_files' = IF outcome \in {"written", "write_failed", "canonicalize_failed"}
                            THEN tmp_files \cup {tab[c]} ELSE tmp_files
            /\ pdf_result' = [pdf_result EXCEPT ![c] =
                   IF outcome = "written" THEN OK
                   ELSE IF outcome = "create_dir_failed"
                   THEN Context("No se pudo crear directorio ./tmp", Anyhow("io error"))
                   ELSE IF outcome = "canonicalize_failed"
                   THEN Context("No se pudo obtener ruta absoluta", Anyhow("io error"))
                   ELSE Context("No se pudo escribir HTML en archivo", Anyhow("io error"))]
            /\ pdf_pc' = [pdf_pc EXCEPT ![c] =
                   IF outcome = "written" THEN "goto" ELSE AfterInternal(pdf_result'[c])]
       ELSE /\ outcome = "written"
            /\ pdf_pc' = [pdf_pc EXCEPT ![c] = "goto"]
            /\ UNCHANGED <<file_path, tmp_files, pdf_result>>
    /\ UNCHANGED <<tabs, calls, unclosed, pdf_req, tab, print_pdf, beside_pdf>>

\* _generate_pdf_internal, step 2: page.goto(final_url)
Goto(c, ok) ==
    /\ pdf_pc[c] = "goto"
    /\ pdf_result' = [pdf_result EXCEPT ![c] =
           IF ok THEN OK ELSE Anyhow("Error al navegar al HTML (chromiumoxide): ")]
    /\ pdf_pc' = [pdf_pc EXCEPT ![c] = IF ok THEN "wait" ELSE AfterInternal(pdf_result'[c])]
    /\ UNCHANGED <<tabs, tmp_files, calls, unclosed, pdf_req, tab, file_path, print_pdf,
                   beside_pdf>>

\* _generate_pdf_internal, step 3: page.wait_for_navigation()
WaitForNavigation(c, ok) ==
    /\ pdf_pc[c] = "wait"
    /\ pdf_result' = [pdf_result EXCEPT ![c] =
           IF ok THEN OK ELSE Anyhow("Error esperando a que cargue la pagina: ")]
    /\ pdf_pc' = [pdf_pc EXCEPT ![c] = IF ok THEN "pdf" ELSE AfterInternal(pdf_result'[c])]
    /\ UNCHANGED <<tabs, tmp_files, calls, unclosed, pdf_req, tab, file_path, print_pdf,
                   beside_pdf>>

\* _generate_pdf_internal, steps 4 and 5: the parameters are built and page.pdf is called
PagePdf(c, ok) ==
    /\ pdf_pc[c] = "pdf"
    /\ print_pdf' = [print_pdf EXCEPT ![c] = Some(PrintToPdfParams(pdf_req[c]))]
    /\ pdf_result' = [pdf_result EXCEPT ![c] =
           IF ok THEN <<"Ok", "%PDF">> ELSE Anyhow("Error generando PDF: ")]
    /\ pdf_pc' = [pdf_pc EXCEPT ![c] = IF ok THEN "remove" ELSE AfterInternal(pdf_result'[c])]
    /\ UNCHANGED <<tabs, tmp_files, calls, unclosed, pdf_req, tab, file_path, beside_pdf>>

\* _generate_pdf_internal, step 6: fs::remove_file for "large" when the file exists; an
\* Err is logged only. Then Ok(pdf_result) is returned to generate_pdf
RemoveFile(c, removed) ==
    /\ pdf_pc[c] = "remove"
    /\ IF SizeCategory(pdf_req[c]) = "large" /\ file_path[c] \in tmp_files
       THEN tmp_files' = IF removed THEN tmp_files \ {file_path[c]} ELSE tmp_files
       ELSE removed /\ UNCHANGED tmp_files
    /\ pdf_pc' = [pdf_pc EXCEPT ![c] = AfterInternal(pdf_result[c])]
    /\ UNCHANGED <<tabs, calls, unclosed, pdf_req, tab, file_path, print_pdf, pdf_result,
                   beside_pdf>>

\* mutant: generate_pdf returning the error of page.close() in place of the result
Returned_CloseError(res, closed) ==
    IF closed THEN res ELSE Anyhow("Error al cerrar la pagina: ")

\* generate_pdf, step 4: `result`, the Result of _generate_pdf_internal, is what the
\* call returns, whatever page.close() answered
Returned(res, closed) == res

\* generate_pdf, steps 3 and 4: page.close(), an Err is logged only; the Result of
\* _generate_pdf_internal is returned
PageClose(c, ok) ==
    /\ pdf_pc[c] = "close"
    /\ tabs' = IF ok THEN tabs \ {tab[c]} ELSE tabs
    /\ unclosed' = IF ok THEN unclosed ELSE unclosed \cup {tab[c]}
    /\ pdf_pc' = [pdf_pc EXCEPT ![c] = "returned"]
    /\ pdf_result' = [pdf_result EXCEPT ![c] = Returned(pdf_result[c], ok)]
    /\ UNCHANGED <<tmp_files, calls, pdf_req, tab, file_path, print_pdf, beside_pdf>>

\* the caller has taken the Result and the locals of the call are dropped
GeneratePdfReturn(c) ==
    /\ pdf_pc[c] = "returned"
    /\ pdf_pc' = [pdf_pc EXCEPT ![c] = "idle"]
    /\ pdf_req' = [pdf_req EXCEPT ![c] = NoPdfRequest]
    /\ tab' = [tab EXCEPT ![c] = 0]
    /\ file_path' = [file_path EXCEPT ![c] = 0]
    /\ print_pdf' = [print_pdf EXCEPT ![c] = NULL]
    /\ pdf_result' = [pdf_result EXCEPT ![c] = OK]
    /\ UNCHANGED <<tabs, tmp_files, calls, unclosed, beside_pdf>>

NextPdf ==
    \/ \E c \in PdfCallers, r \in PdfRequests : GeneratePdfCall(c, r)
    \/ \E c \in PdfCallers, ok \in BOOLEAN : NewPage(c, ok)
    \/ \E c \in PdfCallers, outcome \in FileOutcomes : FinalUrl(c, outcome)
    \/ \E c \in PdfCallers, ok \in BOOLEAN : Goto(c, ok)
    \/ \E c \in PdfCallers, ok \in BOOLEAN : WaitForNavigation(c, ok)
    \/ \E c \in PdfCallers, ok \in BOOLEAN : PagePdf(c, ok)
    \/ \E c \in PdfCallers, removed \in BOOLEAN : RemoveFile(c, removed)
    \/ \E c \in PdfCallers, ok \in BOOLEAN : PageClose(c, ok)
    \/ \E c \in PdfCallers : GeneratePdfReturn(c)

SpecPdf == Init /\ [][NextPdf]_vars

\* --------------------------------------------------------------- C22
\* the callers whose render is in progress: the tab is open and not yet closed
InProgress == {c \in PdfCallers : pdf_pc[c] \in {"url", "goto", "wait", "pdf", "remove", "close"}}

\* C22 as stated: at no instant are more than N renders in progress, N the fixed
\* permit count; a call that cannot start waits or fails. Taken with N one less
\* than the number of tasks that call at the same time: one of them is always
\* kept out. generate_pdf takes no permit, so every caller renders at once.
C22_AsStated == Cardinality(InProgress) <= Cardinality(PdfCallers) - 1

\* --------------------------------------------------------------- C23
\* C23 as stated: after every completed generate_pdf call, with the PDF or with an
\* error of any step, the temporary HTML file the call created no longer exists,
\* and with no call in flight ./tmp holds what it held before the calls: nothing.
\* The file is removed at step 6 only, which no error path reaches.
C23_AsStated ==
    /\ \A c \in PdfCallers : pdf_pc[c] = "returned" => tab[c] \notin tmp_files
    /\ (\A c \in PdfCallers : pdf_pc[c] \in {"idle", "returned"}) => tmp_files = {}

C30_AsStated ==
    \A c \in PdfCallers :
        print_pdf[c] /= NULL =>
            /\ print_pdf[c][1].landscape = (pdf_req[c].orientation = Some("landscape"))
            /\ print_pdf[c][1].scale =
                   (IF pdf_req[c].scale = NULL THEN "1.0" ELSE pdf_req[c].scale[1])
            /\ pdf_req[c].paper_size /= NULL =>
                   /\ print_pdf[c][1].paper_width = pdf_req[c].paper_size[1].width
                   /\ print_pdf[c][1].paper_height = pdf_req[c].paper_size[1].height
            /\ pdf_req[c].paper_size = NULL =>
                   /\ print_pdf[c][1].paper_width = GlobalConfig.default_width
                   /\ print_pdf[c][1].paper_height = GlobalConfig.default_height
            /\ pdf_req[c].margins /= NULL =>
                   print_pdf[c][1].margin_top = pdf_req[c].margins[1].top
            /\ pdf_req[c].margins = NULL =>
                   print_pdf[c][1].margin_top = GlobalConfig.default_margin_top

\* ====================================================================
\* NotificationService::send_via_whatsapp, one request to the gateway at a time,
\* between the two updates process_notification makes to the channel's row
\* ====================================================================
\* what the send and its two row updates never write
beside_wa == <<operations, req, pc, channel_ids, idx, result, response, dropped, senderLog,
               now, emails, email_task, reply, pdf, smtp, attach>>

\* the sends: env vars set or not, whatsapp_config given or not, its recipients
\* (chat ids 1..n), a message that is empty or not, and the attachments (1..m)
WhatsappSends ==
    [env : BOOLEAN, whatsapp_config : BOOLEAN, recipients : 0..MaxRecipients,
     message : BOOLEAN, attachments : 0..MaxAttachments]

\* what the gateway answers to GET session/status
StatusResponses == {"2xx_connected", "2xx_other_state", "non_2xx", "no_response"}

\* what the gateway answers to POST client/sendMessage
PostResponses == {"2xx", "non_2xx", "no_response"}

\* resp.status().is_success() and the JSON field state == "CONNECTED"
Connected(resp) == resp = "2xx_connected"

\* the error send_via_whatsapp returns for an answer to the status GET
StatusError(resp) ==
    IF resp = "no_response" THEN Context("Fallo al hacer GET session/status", Anyhow("reqwest"))
    ELSE IF resp = "non_2xx" THEN Anyhow("Error consultando sesion: ")
    ELSE Anyhow("Sesion WhatsApp no esta CONNECTED")

\* where the send goes once the texts are through: the first attachment with the
\* first recipient, or Ok(()) when one of the two loops has nothing to run over
AfterTexts(w) ==
    IF w.attachments > 0 /\ w.recipients > 0
    THEN [w EXCEPT !.pc = "media", !.a = 1, !.i = 1]
    ELSE [w EXCEPT !.pc = "row", !.result = OK]

\* mutant: the text loop runs whether or not the message is empty
AfterStatus_AlwaysText(w) ==
    IF w.recipients > 0
    THEN [w EXCEPT !.pc = "texts", !.i = 1]
    ELSE AfterTexts(w)

\* where the send goes once the session is known to be connected
AfterStatus(w) ==
    IF w.message /\ w.recipients > 0
    THEN [w EXCEPT !.pc = "texts", !.i = 1]
    ELSE AfterTexts(w)

\* mutant: a text POST answered non-2xx is passed over and the loop goes on
AfterText_Continue(w, resp) ==
    IF resp = "no_response"
    THEN [w EXCEPT !.pc = "row", !.result =
              Context("(send_via_whatsapp) Fallo al POST para texto", Anyhow("reqwest"))]
    ELSE IF w.i < w.recipients THEN [w EXCEPT !.i = @ + 1]
    ELSE AfterTexts(w)

\* for chat_id in recipients { POST text }: an Err of send() and a non-2xx answer
\* both return the error
AfterText(w, resp) ==
    IF resp = "no_response"
    THEN [w EXCEPT !.pc = "row", !.result =
              Context("(send_via_whatsapp) Fallo al POST para texto", Anyhow("reqwest"))]
    ELSE IF resp = "non_2xx"
    THEN [w EXCEPT !.pc = "row", !.result = Anyhow("Fallo al enviar texto WhatsApp: ")]
    ELSE IF w.i < w.recipients THEN [w EXCEPT !.i = @ + 1]
    ELSE AfterTexts(w)

\* mutant: the two loops nested the other way, recipients outside, attachments inside
NextMedia_RecipientMajor(w) ==
    IF w.a < w.attachments THEN [w EXCEPT !.a = @ + 1]
    ELSE IF w.i < w.recipients THEN [w EXCEPT !.i = @ + 1, !.a = 1]
    ELSE [w EXCEPT !.pc = "row", !.result = OK]

\* for attach in attachments { for chat_id in recipients { POST media } }
NextMedia(w) ==
    IF w.i < w.recipients THEN [w EXCEPT !.i = @ + 1]
    ELSE IF w.a < w.attachments THEN [w EXCEPT !.a = @ + 1, !.i = 1]
    ELSE [w EXCEPT !.pc = "row", !.result = OK]

\* an Err of send() and a non-2xx answer to a media POST both return the error
AfterMedia(w, resp) ==
    IF resp = "no_response"
    THEN [w EXCEPT !.pc = "row", !.result =
              Context("(send_via_whatsapp) Fallo al POST para adjunto", Anyhow("reqwest"))]
    ELSE IF resp = "non_2xx"
    THEN [w EXCEPT !.pc = "row", !.result = Anyhow("Fallo al enviar adjunto WhatsApp: ")]
    ELSE NextMedia(w)

\* process_notification: create_channel(op_id, "whatsapp", "pending")
WhatsappCreateChannel(s) ==
    /\ whatsapp.pc = "idle"
    /\ operation_channels' = CreateChannel(operation_channels, 1, "whatsapp", "pending")
    /\ whatsapp' = [pc |-> "running", env |-> s.env, whatsapp_config |-> s.whatsapp_config,
                    recipients |-> s.recipients, message |-> s.message,
                    attachments |-> s.attachments,
                    channel_id |-> Len(operation_channels) + 1,
                    i |-> 1, a |-> 1, result |-> OK]
    /\ UNCHANGED <<faults, gateway, beside_wa>>

\* process_notification: update_channel_status(channel_id, "running", None, false)
WhatsappChannelRunning ==
    /\ whatsapp.pc = "running"
    /\ operation_channels' =
           UpdateChannelStatus(operation_channels, whatsapp.channel_id, "running", NULL, FALSE)
    /\ whatsapp' = [whatsapp EXCEPT !.pc = "env"]
    /\ UNCHANGED <<faults, gateway, beside_wa>>

\* send_via_whatsapp: the two env vars and whatsapp_config, each missing one an Err
WhatsappConfig ==
    /\ whatsapp.pc = "env"
    /\ whatsapp' =
           IF ~whatsapp.env
           THEN [whatsapp EXCEPT !.pc = "row", !.result = Anyhow("No se definio WHATSAPP_API_URL")]
           ELSE IF ~whatsapp.whatsapp_config
           THEN [whatsapp EXCEPT !.pc = "row",
                                 !.result = Anyhow("No se proporciono whatsapp_config")]
           ELSE [whatsapp EXCEPT !.pc = "status"]
    /\ UNCHANGED <<operation_channels, faults, gateway, beside_wa>>

\* send_via_whatsapp, 1): GET {base_url}/session/status/{session_id}
SessionStatusGet(resp) ==
    /\ whatsapp.pc = "status"
    /\ gateway' = Append(gateway, [method |-> "GET", kind |-> "status", chat_id |-> 0,
                                   attachment |-> 0, response |-> resp])
    /\ whatsapp' = IF Connected(resp) THEN AfterStatus(whatsapp)
                   ELSE [whatsapp EXCEPT !.pc = "row", !.result = StatusError(resp)]
    /\ UNCHANGED <<operation_channels, faults, beside_wa>>

\* send_via_whatsapp, 2): POST {base_url}/client/sendMessage/{session_id}, the text
SendTextPost(resp) ==
    /\ whatsapp.pc = "texts"
    /\ gateway' = Append(gateway, [method |-> "POST", kind |-> "text", chat_id |-> whatsapp.i,
                                   attachment |-> 0, response |-> resp])
    /\ whatsapp' = AfterText(whatsapp, resp)
    /\ UNCHANGED <<operation_channels, faults, beside_wa>>

\* send_via_whatsapp, 3): POST {base_url}/client/sendMessage/{session_id}, one attachment
SendMediaPost(resp) ==
    /\ whatsapp.pc = "media"
    /\ gateway' = Append(gateway, [method |-> "POST", kind |-> "media", chat_id |-> whatsapp.i,
                                   attachment |-> whatsapp.a, response |-> resp])
    /\ whatsapp' = AfterMedia(whatsapp, resp)
    /\ UNCHANGED <<operation_channels, faults, beside_wa>>

\* process_notification: Ok => update_channel_status(.., "done", None, false);
\* Err(e) => update_channel_status(.., "failed", Some({:?} of e), true)
WhatsappChannelUpdate ==
    /\ whatsapp.pc = "row"
    /\ operation_channels' =
           IF whatsapp.result = OK
           THEN UpdateChannelStatus(operation_channels, whatsapp.channel_id, "done", NULL, FALSE)
           ELSE UpdateChannelStatus(operation_channels, whatsapp.channel_id, "failed",
                                    Debug(whatsapp.result), TRUE)
    /\ whatsapp' = [whatsapp EXCEPT !.pc = "end"]
    /\ UNCHANGED <<faults, gateway, beside_wa>>

\* one of the two updates of the row fails and process_notification returns with `?`
WhatsappStoreFails ==
    /\ whatsapp.pc \in {"running", "row"}
    /\ faults < MaxStoreFaults
    /\ faults' = faults + 1
    /\ whatsapp' = [whatsapp EXCEPT !.pc = "end"]
    /\ UNCHANGED <<operation_channels, gateway, beside_wa>>

NextWhatsapp ==
    \/ \E s \in WhatsappSends : WhatsappCreateChannel(s)
    \/ WhatsappChannelRunning
    \/ WhatsappConfig
    \/ \E resp \in StatusResponses : SessionStatusGet(resp)
    \/ \E resp \in PostResponses : SendTextPost(resp)
    \/ \E resp \in PostResponses : SendMediaPost(resp)
    \/ WhatsappChannelUpdate
    \/ WhatsappStoreFails

SpecWhatsapp == Init /\ [][NextWhatsapp]_vars

\* --------------------------------------------------------------- C25
\* the positions of the POSTs in the history of requests
Posts == {k \in DOMAIN gateway : gateway[k].method = "POST"}

\* request j comes before request k in the order text by recipient, then media by
\* attachment and, within one attachment, by recipient
InSendOrder(j, k) ==
    \/ gateway[j].kind = "text" /\ gateway[k].kind = "media"
    \/ /\ gateway[j].kind = "text" /\ gateway[k].kind = "text"
       /\ gateway[j].chat_id < gateway[k].chat_id
    \/ /\ gateway[j].kind = "media" /\ gateway[k].kind = "media"
       /\ \/ gateway[j].attachment < gateway[k].attachment
          \/ /\ gateway[j].attachment = gateway[k].attachment
             /\ gateway[j].chat_id < gateway[k].chat_id

\* C25: in one WhatsApp send no sendMessage POST is issued unless the session-status
\* GET before it was answered 2xx with state "CONNECTED"; every text POST precedes
\* every media POST, and the media POSTs go attachment by attachment, all the
\* recipients of one attachment before the next attachment.
C25_GatewayOrder ==
    /\ Posts /= {} =>
           /\ gateway[1].kind = "status" /\ gateway[1].response = "2xx_connected"
           /\ \A k \in Posts : k > 1
    /\ \A j, k \in Posts : j < k => InSendOrder(j, k)

\* two attachments have gone to two recipients after the texts
C25_Witness ==
    /\ whatsapp.pc = "end"
    /\ whatsapp.result = OK
    /\ \E j, k \in Posts : gateway[j].kind = "text" /\ gateway[k].kind = "media"
    /\ \E j, k \in Posts :
           /\ gateway[j].kind = "media" /\ gateway[k].kind = "media"
           /\ gateway[j].attachment < gateway[k].attachment
           /\ gateway[j].chat_id > gateway[k].chat_id

\* --------------------------------------------------------------- C26
\* the request was not answered 2xx
Refused(k) == gateway[k].response \in {"non_2xx", "no_response"}

\* the same request issued twice
Retried ==
    \E j, k \in DOMAIN gateway :
        /\ j < k
        /\ gateway[j].kind = gateway[k].kind
        /\ gateway[j].chat_id = gateway[k].chat_id
        /\ gateway[j].attachment = gateway[k].attachment

\* the row of the channel is failed with the {:?} text of the send's error
RowFailed ==
    /\ operation_channels[whatsapp.channel_id].status = "failed"
    /\ operation_channels[whatsapp.channel_id].error_message = Debug(whatsapp.result)

beside_smtp == <<operations, operation_channels, req, pc, channel_ids, idx, result,
                 response, faults, dropped, senderLog, now, emails, email_task, reply, pdf,
                 wa, attach>>

\* how send_email_via_smtp ends for one recipient: sent; the address does not
\* parse; the relay refuses; 30 seconds pass
TransmitOutcomes == {"sent", "invalid_address", "smtp_error", "timeout"}

\* the Result of send_email_via_smtp
Transmit(outcome) ==
    IF outcome = "sent" THEN OK
    ELSE IF outcome = "invalid_address"
    THEN Context("Invalid recipient address", Anyhow("AddressError"))
    ELSE IF outcome = "smtp_error" THEN Anyhow("SmtpTransport")
    ELSE Anyhow("Elapsed")

\* mutant: a failed transmission is passed over and the next recipient is served
AfterRecipient_Continue(m, res) ==
    IF m.i < m.recipients THEN [m EXCEPT !.i = @ + 1]
    ELSE [m EXCEPT !.pc = "end", !.result = res]

\* the loop of send_unified: the first failure is returned, otherwise the next
\* recipient is served, and Ok(()) after the last
AfterRecipient(m, res) ==
    IF res /= OK THEN [m EXCEPT !.pc = "end", !.result = res]
    ELSE IF m.i < m.recipients THEN [m EXCEPT !.i = @ + 1]
    ELSE [m EXCEPT !.pc = "end", !.result = OK]

\* send_unified(op_id, req, attachments) is called with recipients r1..rn and
\* attachments 1..m
SendUnifiedCall(n, m) ==
    /\ mail.pc = "idle"
    /\ mail' = [pc |-> "sending", recipients |-> n, attachments |-> m, i |-> 1,
                result |-> OK]
    /\ UNCHANGED <<outbox, beside_smtp>>

\* one message, to the one mailbox of the recipient whose turn it is, with one
\* part per attachment
TransmitToRecipient(outcome) ==
    /\ mail.pc = "sending"
    /\ outbox' = Append(outbox, [to |-> mail.i, parts |-> mail.attachments,
                                 result |-> Transmit(outcome)])
    /\ mail' = AfterRecipient(mail, Transmit(outcome))
    /\ UNCHANGED beside_smtp

\* the caller takes the Result; the history is kept
SendUnifiedReturn ==
    /\ mail.pc = "end"
    /\ mail' = [mail EXCEPT !.pc = "returned"]
    /\ UNCHANGED <<outbox, beside_smtp>>

NextSmtp ==
    \/ \E n \in 1..MaxRecipients, m \in 0..MaxAttachments : SendUnifiedCall(n, m)
    \/ \E outcome \in TransmitOutcomes : TransmitToRecipient(outcome)
    \/ SendUnifiedReturn

SpecSmtp == Init /\ [][NextSmtp]_vars

\* --------------------------------------------------------------- C27
\* C27: an email send to r1..rn transmits one message per recipient, each to that
\* recipient alone, in list order; when the transmission to ri fails no message
\* goes to a later recipient, the failure of ri is the error the send returns, and
\* the messages to r1..r(i-1) were sent before it.
C27_OnePerRecipient ==
    /\ \A k \in DOMAIN outbox : outbox[k].to = k /\ k <= mail.recipients
    /\ \A k \in DOMAIN outbox :
           outbox[k].result /= OK =>
               /\ k = Len(outbox)
               /\ mail.pc \in {"end", "returned"}
               /\ mail.result = outbox[k].result
               /\ \A j \in 1..(k - 1) : outbox[j].result = OK
    /\ (mail.pc \in {"end", "returned"} /\ mail.result = OK) =>
           /\ Len(outbox) = mail.recipients
           /\ \A k \in DOMAIN outbox : outbox[k].result = OK

\* the first of two recipients failed and the second got no message
C27_Witness ==
    /\ mail.pc = "returned"
    /\ mail.recipients = 2
    /\ Len(outbox) = 1
    /\ mail.result = Anyhow("SmtpTransport")

\* ====================================================================
\* The attachments of NotificationService::process_notification: how the list is
\* built and what each sender is handed (the rows it writes are followed in Spec)
\* ====================================================================
\* what these steps never write
beside_attach == <<operations, operation_channels, req, pc, channel_ids, idx, result,
                   response, faults, dropped, senderLog, now, emails, email_task, reply, pdf,
                   wa, smtp>>

\* the k-th attachment a request carries in other_attachments
OtherAttachment(k) ==
    [filename |-> <<"file", k>>, content_type |-> "image/png", data |-> <<"bytes", k>>]

\* the requests: channels, pdf_html present or not, pdf_attachment_name given or
\* not, other_attachments absent or a list
AttachmentRequests ==
    [channels : SeqsUpTo({"email", "whatsapp"}, MaxChannels),
     pdf_html : BOOLEAN,
     pdf_attachment_name : {NULL, Some(<<"invoice.pdf">>)},
     other_attachments : {NULL} \cup
         {Some([k \in 1..m |-> OtherAttachment(k)]) : m \in 0..MaxAttachments}]

\* the EmailAttachment pushed for the generated PDF
PdfAttachment(r, pdf_bytes) ==
    [filename |-> IF r.pdf_attachment_name = NULL THEN <<"document.pdf">>
                  ELSE r.pdf_attachment_name[1],
     content_type |-> "application/pdf",
     data |-> pdf_bytes]

\* mutant: other_attachments first, the PDF pushed after them
FinalAttachments_OthersFirst(r, pdf_bytes) ==
    (IF r.other_attachments = NULL THEN <<>> ELSE r.other_attachments[1])
        \o (IF r.pdf_html THEN <<PdfAttachment(r, pdf_bytes)>> ELSE <<>>)

\* final_attachments after steps 2 and 2.b: the PDF if pdf_html was there, then
\* other_attachments extended onto it
FinalAttachments(r, pdf_bytes) ==
    (IF r.pdf_html THEN <<PdfAttachment(r, pdf_bytes)>> ELSE <<>>)
        \o (IF r.other_attachments = NULL THEN <<>> ELSE r.other_attachments[1])

\* process_notification is called with the request
ProcessNotificationCall(r) ==
    /\ notif.pc = "idle"
    /\ notif' = [pc |-> "attachments", channels |-> r.channels, pdf_html |-> r.pdf_html,
                 pdf_attachment_name |-> r.pdf_attachment_name,
                 other_attachments |-> r.other_attachments,
                 final_attachments |-> <<>>, idx |-> 1, renders |-> 0]
    /\ UNCHANGED <<handed, beside_attach>>

\* steps 2 and 2.b: generate_pdf_for_notification when pdf_html is there, its Err
\* returned with `?`; then the list is completed
BuildAttachments(rendered) ==
    /\ notif.pc = "attachments"
    /\ notif.pdf_html \/ rendered
    /\ notif' =
           IF notif.pdf_html /\ ~rendered
           THEN [notif EXCEPT !.pc = "end", !.renders = @ + 1]
           ELSE [notif EXCEPT
                    !.pc = IF notif.channels = <<>> THEN "end" ELSE "channels",
                    !.renders = IF notif.pdf_html THEN @ + 1 ELSE @,
                    !.final_attachments = FinalAttachments(notif, <<"%PDF">>)]
    /\ UNCHANGED <<handed, beside_attach>>

\* step 4, one channel: send_via_email or send_via_whatsapp is called with
\* &final_attachments; whatever it returns, the loop goes on
HandToSender(ok) ==
    /\ notif.pc = "channels"
    /\ handed' = Append(handed, [channel |-> notif.channels[notif.idx],
                                 attachments |-> notif.final_attachments, ok |-> ok])
    /\ notif' = IF notif.idx < Len(notif.channels)
                THEN [notif EXCEPT !.idx = @ + 1]
                ELSE [notif EXCEPT !.pc = "end"]
    /\ UNCHANGED beside_attach

NextAttach ==
    \/ \E r \in AttachmentRequests : ProcessNotificationCall(r)
    \/ \E rendered \in BOOLEAN : BuildAttachments(rendered)
    \/ \E ok \in BOOLEAN : HandToSender(ok)

SpecAttach == Init /\ [][NextAttach]_vars

\* --------------------------------------------------------------- C28
\* the other_attachments of the request, none when the field is absent
Others == IF notif.other_attachments = NULL THEN <<>> ELSE notif.other_attachments[1]

\* the list is the PDF (when pdf_html was there) and then the others, in order
AsTheRequestSays(list) ==
    /\ Len(list) = (IF notif.pdf_html THEN 1 ELSE 0) + Len(Others)
    /\ notif.pdf_html =>
           /\ list[1].content_type = "application/pdf"
           /\ list[1].data = <<"%PDF">>
           /\ list[1].filename = (IF notif.pdf_attachment_name = NULL
                                  THEN <<"document.pdf">>
                                  ELSE notif.pdf_attachment_name[1])
    /\ \A k \in 1..Len(Others) : list[k + (IF notif.pdf_html THEN 1 ELSE 0)] = Others[k]

\* C28: the attachment list handed to the senders is the generated PDF first (only
\* when pdf_html was present), as application/pdf and named pdf_attachment_name or
\* document.pdf, followed by every other_attachments entry in input order,
\* unchanged; every channel of the operation is handed this same list, and the PDF
\* is rendered exactly once per operation however many channels there are.
C28_AttachmentList ==
    /\ \A k \in DOMAIN handed : AsTheRequestSays(handed[k].attachments)
    /\ \A j, k \in DOMAIN handed : handed[j].attachments = handed[k].attachments
    /\ notif.renders <= 1
    /\ handed /= <<>> => notif.renders = (IF notif.pdf_html THEN 1 ELSE 0)

\* two channels were handed the PDF under its default name and two other files
C28_Witness ==
    /\ notif.pc = "end"
    /\ Len(handed) = 2
    /\ handed[1].channel /= handed[2].channel
    /\ ~handed[1].ok
    /\ notif.pdf_html /\ notif.pdf_attachment_name = NULL
    /\ Len(Others) = 2
    /\ notif.renders = 1

\* ====================================================================
\* ApiKeyMiddleware in front of the endpoints of /api/operations
\* ====================================================================
\* std::env::var("API_KEY").unwrap_or_default(): unset reads as the empty string
ApiKeys == {"", "secret"}

\* the X-API-Key header of a request: missing, the key, another value, and a value
\* with a byte outside visible ASCII
Headers == {NULL, Some("secret"), Some("other"), Some("secret and byte 0xE9")}

\* HeaderValue::to_str().unwrap_or_default(): the text, or "" when a byte is not
\* visible ASCII
ToStr(value) == IF value = "secret and byte 0xE9" THEN "" ELSE value

\* mutant: any X-API-Key header lets the request through
KeyMatches_AnyHeader(api_key, header) == header /= NULL

\* Some(key) if key.to_str().unwrap_or_default() == api_key
KeyMatches(api_key, header) == header /= NULL /\ ToStr(header[1]) = api_key

\* the responses the middleware gives without calling the service
Refusal(status, error) == [endpoint |-> "ApiKeyMiddleware", status |-> status, body |-> error]

\* the handlers behind the middleware
Handler ==
    \/ \E id \in OperationIds, r \in OperationRequests : CreateOperationEndpoint(id, r)
    \/ \E id \in OperationIds : GetOperationEndpoint(id)
    \/ \E page_size \in PageSizes : ListOperationsEndpoint(1, page_size)

\* ApiKeyMiddlewareService::call: 500 when API_KEY is empty, the wrapped service
\* when the header matches it, 401 otherwise
ApiKeyMiddlewareCall(api_key, header) ==
    IF api_key = ""
    THEN /\ reply' = Refusal(500, "API key no configurada en el servidor")
         /\ UNCHANGED <<operations, now, faults, emails, email_task, dispatcher>>
    ELSE IF KeyMatches(api_key, header)
    THEN Handler
    ELSE /\ reply' = Refusal(401, "API key invalida o faltante")
         /\ UNCHANGED <<operations, now, faults, emails, email_task, dispatcher>>

NextApi ==
    \/ Tick
    \/ \E api_key \in ApiKeys, header \in Headers : ApiKeyMiddlewareCall(api_key, header)

SpecApi == Init /\ [][NextApi]_vars

\* --------------------------------------------------------------- C29
\* the step answers as one of the handlers does
HandlerAnswered ==
    /\ reply' /= NoReply
    /\ reply'.endpoint \in {"create_operation", "get_operation", "list_operations"}
    /\ reply' /= reply

\* C29: a request reaches a handler, and so can create or change a store row, only
\* if API_KEY is non-empty and the request's X-API-Key header equals it; with
\* API_KEY empty or unset the answer is 500, with API_KEY set and the header
\* missing or different it is 401, in both cases with no handler invoked and the
\* store unchanged.
C29_ApiKeyGuard ==
    [][/\ \A api_key \in ApiKeys, header \in Headers :
              ApiKeyMiddlewareCall(api_key, header) =>
                  IF api_key = ""
                  THEN reply'.status = 500 /\ ~HandlerAnswered /\ UNCHANGED store
                  ELSE IF header = Some(api_key)
                  THEN TRUE
                  ELSE reply'.status = 401 /\ ~HandlerAnswered /\ UNCHANGED store
       /\ (HandlerAnswered \/ ~UNCHANGED store) =>
              \E api_key \in ApiKeys :
                  api_key /= "" /\ ApiKeyMiddlewareCall(api_key, Some(api_key))]_vars

\* a request with another key was answered 401 after one with the key had created
\* an operation
C29_Witness ==
    /\ reply = Refusal(401, "API key invalida o faltante")
    /\ 1 \in DOMAIN operations
    /\ now > 0

Handling(o) ==
    \/ RespondAsync(o)
    \/ OperationRunning(o)
    \/ \E rendered \in BOOLEAN : GeneratePdf(o, rendered)
    \/ CreateChannelRow(o)
    \/ ChannelRunning(o)
    \/ \E outcome \in EmailOutcomes \cup GatewayOutcomes \cup {"none"} : InvokeSender(o, outcome)
    \/ ChannelDone(o)
    \/ ChannelFailed(o)
    \/ OperationFailed(o)
    \/ ListChannels(o)
    \/ OperationDone(o)
    \/ SyncOk(o)
    \/ SyncErr(o)
    \/ AsyncOk(o)
    \/ AsyncErr(o)
    \/ StoreAccessFails(o)
    \/ MarkOperationFailedFails(o)

\* Spec with every awaited call returning: a handling that can take a step takes one
SpecFair == Spec /\ \A o \in Ops : WF_vars(Handling(o))

\* --------------------------------------------------------------- C32
\* the Operation and every ChannelAttempt row of it are done or failed
Settled(o) ==
    /\ operations[o].status \in Terminal
    /\ \A c \in ChannelsOf(o) : operation_channels[c].status \in Terminal

EmailsOf(id) == {e \in DOMAIN emails : emails[e].operation_id = id}

\* the emails row and the operations row carry the same status and error_message
Mirrors(e) ==
    /\ emails[e].operation_id \in DOMAIN operations
    /\ emails[e].status = operations[emails[e].operation_id].status
    /\ emails[e].error_message = operations[emails[e].operation_id].error_message

AllRowsCreated(o) ==
    /\ Len(channel_ids[o]) = Len(req[o].channels)
    /\ ChannelsOf(o) = {channel_ids[o][j][2] : j \in 1..Len(channel_ids[o])}

\* C34: the dispatcher's phases are strictly ordered. The Operation is written
\* running before the PDF is rendered and before any ChannelAttempt row exists: no
\* channel row ever belongs to a pending operation, and a row is created, with
\* status pending, only for a running operation. All rows of the request are
\* created before any of them leaves pending and before any sender is invoked.
C34_PhasesOrdered ==
    /\ [](\A o \in Ops : Created(o) =>
             /\ operations[o].status = "pending" => (ChannelsOf(o) = {} /\ pc[o] /= "pdf")
             /\ ((\E c \in ChannelsOf(o) : operation_channels[c].status /= "pending")
                    \/ senderLog[o] /= <<>>) => AllRowsCreated(o))
    /\ [][\A c \in DOMAIN operation_channels' \ DOMAIN operation_channels :
             /\ operation_channels'[c].status = "pending"
             /\ operation_channels'[c].operation_id \in DOMAIN operations
             /\ operations[operation_channels'[c].operation_id].status = "running"]_vars

\* after the render, both rows of a two-channel request are pending, the Operation
\* is running and no sender has been invoked yet
C34_Witness ==
    \E o \in Ops :
        /\ pc[o] = "ch_running" /\ idx[o] = 1
        /\ req[o].pdf_html
        /\ Len(req[o].channels) = 2
        /\ AllRowsCreated(o)
        /\ \A c \in ChannelsOf(o) : operation_channels[c].status = "pending"
        /\ operations[o].status = "running"
        /\ senderLog[o] = <<>>

\* --------------------------------------------------------------- C35
\* the positions of the request whose row is failed
FailedPositions(o) == {j \in 1..Len(channel_ids[o]) : RowAt(o, j).status = "failed"}

\* the last position, in request order, whose row is failed
LastFailed(o) == CHOOSE j \in FailedPositions(o) : \A k \in FailedPositions(o) : k <= j

\* the Operation is failed with the error text of the last failed channel
FailedByLastChannel(o) ==
    /\ operations[o].status = "failed"
    /\ operations[o].error_message = RowAt(o, LastFailed(o)).error_message

\* every channel of the request has been processed: its row is done or failed
AllProcessed(o) ==
    /\ AllRowsCreated(o)
    /\ \A c \in ChannelsOf(o) : operation_channels[c].status \in Terminal

SendSucceeded ==
    \/ whatsapp.pc = "row" /\ whatsapp.result = OK
    \/ whatsapp.pc = "end" /\ operation_channels[whatsapp.channel_id].status = "done"

TextPosts == {k \in Posts : gateway[k].kind = "text"}
MediaPosts == {k \in Posts : gateway[k].kind = "media"}

\* C36: a successful WhatsApp send to recipients R with attachments A has issued
\* the status GET, exactly one text POST per recipient when the message is
\* non-empty and none when it is empty, and exactly one media POST per attachment
\* and recipient, |A| x |R| in all, each with the content of its attachment; with an
\* empty message and no attachment the status GET is the only request.
C36_PostCounts ==
    SendSucceeded =>
        /\ gateway[1].kind = "status"
        /\ Len(gateway) = 1 + Cardinality(TextPosts) + Cardinality(MediaPosts)
        /\ \A k \in DOMAIN gateway : ~Refused(k)
        /\ Cardinality(TextPosts) = IF whatsapp.message THEN whatsapp.recipients ELSE 0
        /\ \A i \in 1..whatsapp.recipients :
               whatsapp.message => Cardinality({k \in TextPosts : gateway[k].chat_id = i}) = 1
        /\ Cardinality(MediaPosts) = whatsapp.attachments * whatsapp.recipients
        /\ \A a \in 1..whatsapp.attachments, i \in 1..whatsapp.recipients :
               Cardinality({k \in MediaPosts : gateway[k].attachment = a
                                               /\ gateway[k].chat_id = i}) = 1
        /\ (~whatsapp.message /\ whatsapp.attachments = 0) => Len(gateway) = 1

\* a send with a message and two attachments to two recipients has succeeded with
\* the GET, two text POSTs and four media POSTs
C36_Witness ==
    /\ SendSucceeded /\ whatsapp.pc = "end"
    /\ whatsapp.message /\ whatsapp.recipients = 2 /\ whatsapp.attachments = 2
    /\ Cardinality(TextPosts) = 2
    /\ Cardinality(MediaPosts) = 4
    /\ Len(gateway) = 7

\* --------------------------------------------------------------- C37
\* C37 as stated: once the handling of a notification request has finished, no
\* ChannelAttempt row of the operation is left pending or running, also when a
\* store write fails in the middle of the channel loop. The `?` after the refused
\* write returns from process_notification, and the handler marks the Operation
\* only: the row being processed stays running and the later rows stay pending.
C37_AsStated ==
    \A o \in Ops : Finished(o) =>
        \A c \in ChannelsOf(o) : operation_channels[c].status \notin {"pending", "running"}

\* ====================================================================
\* Two notification requests handled at the same time
\* ====================================================================
\* the requests of the two handlers: one or two channels with their configs, no PDF
ConcurrentRequests ==
    {r \in Requests :
        /\ r.channels \in {<<"email">>, <<"whatsapp">>, <<"email", "whatsapp">>}
        /\ ~r.pdf_html
        /\ r.email_config = ("email" \in Range(r.channels))
        /\ r.whatsapp_config = ("whatsapp" \in Range(r.channels))}

\* the answers of the senders: accepted, or refused by the relay or by the gateway
ConcurrentOutcomes == {"sent", "smtp_error", "post_non_2xx"}

\* actix runs the handlers of two requests concurrently and tokio the spawned
\* tasks: the steps of the two dispatchers interleave at every await
NextConcurrent ==
    \/ \E o \in Dispatchers, r \in ConcurrentRequests : SendUnifiedNotificationEndpoint(o, r)
    \/ \E o \in Dispatchers : RespondAsync(o)
    \/ \E o \in Dispatchers : OperationRunning(o)
    \/ \E o \in Dispatchers : CreateChannelRow(o)
    \/ \E o \in Dispatchers : ChannelRunning(o)
    \/ \E o \in Dispatchers, outcome \in ConcurrentOutcomes : InvokeSender(o, outcome)
    \/ \E o \in Dispatchers : ChannelDone(o)
    \/ \E o \in Dispatchers : ChannelFailed(o)
    \/ \E o \in Dispatchers : OperationFailed(o)
    \/ \E o \in Dispatchers : ListChannels(o)
    \/ \E o \in Dispatchers : OperationDone(o)
    \/ \E o \in Dispatchers : SyncOk(o)
    \/ \E o \in Dispatchers : SyncErr(o)
    \/ \E o \in Dispatchers : AsyncOk(o)
    \/ \E o \in Dispatchers : AsyncErr(o)
    \/ \E o \in Dispatchers : StoreAccessFails(o)

SpecConcurrent == Init /\ [][NextConcurrent]_vars

\* --------------------------------------------------------------- C38
\* the step is one of the handling of o: each of them moves o's position in the
\* code, its loop index or its answer
Stepped(o) ==
    o \in Dispatchers /\ (pc'[o] /= pc[o] \/ idx'[o] /= idx[o] \/ response'[o] /= response[o])

\* the step leaves alone the Operation row of o and every channel row of o, and
\* creates no channel row for o
RowsKept(o) ==
    /\ Created(o) => (o \in DOMAIN operations' /\ operations'[o] = operations[o])
    /\ ~Created(o) => o \notin DOMAIN operations'
    /\ \A c \in DOMAIN operation_channels :
           operation_channels[c].operation_id = o =>
               /\ c \in DOMAIN operation_channels'
               /\ operation_channels'[c] = operation_channels[c]
    /\ \A c \in DOMAIN operation_channels' \ DOMAIN operation_channels :
           operation_channels'[c].operation_id /= o

\* the status the run of o has when it runs alone with the sender outcomes it got:
\* done when every sender answered Ok, failed when one did not
StatusAlone(o) ==
    IF \A j \in 1..Len(senderLog[o]) : senderLog[o][j].ok THEN "done" ELSE "failed"

\* C38: when two dispatchers run at the same time for distinct operations, in any
\* interleaving, every step of one leaves alone the Operation row and the
\* ChannelAttempt rows of the other and of the operations that ended before; and
\* when a run has ended with process_notification returning Ok, its rows are its
\* own senders' outcomes and its Operation has the status, and the error text, it
\* has when it runs alone with these outcomes; a run that a store error ended is
\* marked failed by its own handler.
C38_Isolation ==
    /\ [][\A o \in Dispatchers \cup {Earlier} : ~Stepped(o) => RowsKept(o)]_vars
    /\ [](\A o \in Dispatchers : (Finished(o) /\ result[o] = OK) =>
             /\ AllProcessed(o)
             /\ Len(senderLog[o]) = Len(req[o].channels)
             /\ \A j \in 1..Len(channel_ids[o]) :
                    RowAt(o, j).status = IF senderLog[o][j].ok THEN "done" ELSE "failed"
             /\ operations[o].status = StatusAlone(o)
             /\ operations[o].status = "failed" => FailedByLastChannel(o)
             /\ operations[o].status = "done" => operations[o].error_message = NULL)
    /\ [](\A o \in Dispatchers : (Finished(o) /\ result[o] /= OK) =>
             operations[o].status = "failed")

\* both runs have ended after their steps interleaved (the rows of the second lie
\* between the rows of the first): one is done, the other failed
C38_Witness ==
    /\ Finished(1) /\ Finished(2)
    /\ result[1] = OK /\ result[2] = OK
    /\ operations[1].status = "done" /\ operations[2].status = "failed"
    /\ Len(channel_ids[1]) = 2
    /\ \E c \in ChannelsOf(2) : channel_ids[1][1][2] < c /\ c < channel_ids[1][2][2]

\* ====================================================================
\* GET /api/operations over every page and page_size
\* ====================================================================
\* the values of a u64 query parameter
Words == 0..(2^WordBits - 1)

\* list_operations in a build with overflow checks, when (page - 1) * page_size
\* leaves u64: the handler panics and the request gets no answer
ListOperationsPanics(page, page_size) ==
    /\ Overflows(page, page_size)
    /\ reply' = [endpoint |-> "list_operations", status |-> 0,
                 panic |-> "attempt to multiply with overflow"]
    /\ UNCHANGED <<operations, now, faults, emails, email_task, dispatcher>>

\* the last answer is a list
Listed == reply.status = 200 /\ reply.endpoint = "list_operations"

\* a list request changes nothing in the store: one list request between two
\* writes reaches every answer there is
NextPaging ==
    \/ Tick
    \/ \E id \in OperationIds, r \in OperationRequests : CreateOperationEndpoint(id, r)
    \/ \E page \in Words, page_size \in Words :
           ~Listed /\ ListOperationsEndpoint(page, page_size)
    \/ \E page \in Words, page_size \in Words :
           ~Listed /\ ListOperationsPanics(page, page_size)

SpecPaging == Init /\ [][NextPaging]_vars

\* --------------------------------------------------------------- C39
\* the rows at positions (p-1)*page_size to p*page_size - 1 of the ordering, counted
\* from 0: none beyond the last row
PositionsOfPage(ord, p, page_size) ==
    SubSeq(ord, (p - 1) * page_size + 1, Min(p * page_size, Len(ord)))

\* C39 as stated: for a fixed store state, a fixed ordering of it and a fixed
\* page_size >= 1, page p of list_operations holds the rows at positions
\* (p-1)*page_size to p*page_size - 1 of the ordering, for every p >= 1: no more
\* than page_size items, and none for a page beyond the last row. With
\* (p-1)*page_size at or above half of the u64 range, `offset as i64` is negative,
\* SQLite skips nothing and the page holds the first rows again.
C39_AsStated ==
    \A ord \in OrderByCreatedAtDesc(operations) :
        \A p \in Words \ {0}, page_size \in Words \ {0} :
            /\ Page(ord, p, page_size) = PositionsOfPage(ord, p, page_size)
            /\ Len(Page(ord, p, page_size)) <= page_size
            /\ (p - 1) * page_size >= Len(ord) => Page(ord, p, page_size) = <<>>

====
